---------------------------- MODULE Spec2Model ----------------------------
(***************************************************************************)
(* raj.quest: URL redirects and Markdown notes behind a key, optionally    *)
(* password-protected, administered through a bulk text editor.            *)
(*                                                                         *)
(* Strings are sequences of one-character strings, so that the regular     *)
(* expressions, trim(), split() and join() of the bulk codec are computed  *)
(* character by character.                                                 *)
(***************************************************************************)
EXTENDS Integers, Sequences, FiniteSets, TLC

(***************************************************************************)
(* Characters                                                              *)
(***************************************************************************)
Lower == {"a","b","c","d","e","f","g","h","i","j","k","l","m",
          "n","o","p","q","r","s","t","u","v","w","x","y","z"}

Upper == {"A","B","C","D","E","F","G","H","I","J","K","L","M",
          "N","O","P","Q","R","S","T","U","V","W","X","Y","Z"}

Digit == {"0","1","2","3","4","5","6","7","8","9"}

\* the character class [a-zA-Z0-9_-]
KeyChar == Lower \cup Upper \cup Digit \cup {"_", "-"}

\* the characters \s and trim() remove that a line (split on \n) can hold
WhiteSpace == {" ", "\t", "\r"}

NL == "\n"

\* the characters of the model in UTF-16 code unit order (Array.prototype.sort)
CodeOrder ==
    <<"\t", "\n", "\r", " ", "#", "*", "-", ".", "/",
      "0","1","2","3","4","5","6","7","8","9", ":", ">",
      "A","B","C","D","E","F","G","H","I","J","K","L","M",
      "N","O","P","Q","R","S","T","U","V","W","X","Y","Z",
      "[", "]", "_",
      "a","b","c","d","e","f","g","h","i","j","k","l","m",
      "n","o","p","q","r","s","t","u","v","w","x","y","z">>

Code(c) == CHOOSE i \in 1..Len(CodeOrder) : CodeOrder[i] = c

(***************************************************************************)
(* String helpers                                                          *)
(***************************************************************************)
\* undefined: no string of characters equals it
None == <<"none">>

Min(a, b) == IF a <= b THEN a ELSE b

\* Body applied to the value of e, with e evaluated once
Once(e, Body(_)) == CHOOSE r \in {Body(x) : x \in {e}} : TRUE

\* s.slice(i - 1, j) with 1-based inclusive bounds
Slice(s, i, j) == IF i > j THEN <<>> ELSE SubSeq(s, i, j)

DropFirst(s, n) == Slice(s, n + 1, Len(s))

StartsWith(s, p) == Len(s) >= Len(p) /\ SubSeq(s, 1, Len(p)) = p

\* the least element of a non-empty set of numbers
MinOf(S) == CHOOSE x \in S : \A y \in S : x <= y

\* s without its leading white space
TrimStart(s) ==
    LET i == CHOOSE k \in 1..(Len(s) + 1) :
                 /\ k = Len(s) + 1 \/ s[k] \notin WhiteSpace
                 /\ \A j \in 1..(k - 1) : s[j] \in WhiteSpace
    IN  DropFirst(s, i - 1)

\* s without its trailing white space
TrimEnd(s) ==
    LET i == CHOOSE k \in 0..Len(s) :
                 /\ k = 0 \/ s[k] \notin WhiteSpace
                 /\ \A j \in (k + 1)..Len(s) : s[j] \in WhiteSpace
    IN  Slice(s, 1, i)

\* String.prototype.trim
Trim(s) == TrimEnd(TrimStart(s))

\* String.prototype.split('\n'): the lines of a text, at least one
SplitLines(text) ==
    LET nl == {i \in 1..Len(text) : text[i] = NL}
        \* the position of the k-th line break; 0 and Len + 1 close the ends
        At(k) == IF k = 0 THEN 0
                 ELSE IF k > Cardinality(nl) THEN Len(text) + 1
                 ELSE CHOOSE i \in nl : Cardinality({j \in nl : j <= i}) = k
    IN  [k \in 1..(Cardinality(nl) + 1) |-> Slice(text, At(k - 1) + 1, At(k) - 1)]

\* Array.prototype.join('\n')
RECURSIVE JoinLines(_)
JoinLines(lines) ==
    IF lines = <<>> THEN <<>>
    ELSE IF Len(lines) = 1 THEN lines[1]
    ELSE lines[1] \o <<NL>> \o JoinLines(Tail(lines))

\* a < b in code unit order
StrLess(a, b) ==
    LET d == {i \in 1..Min(Len(a), Len(b)) : a[i] # b[i]}
    IN  IF d = {} THEN Len(a) < Len(b)
        ELSE Code(a[MinOf(d)]) < Code(b[MinOf(d)])

\* Array.from(keys).sort()
RECURSIVE SortKeys(_)
SortKeys(S) ==
    IF S = {} THEN <<>>
    ELSE Once(CHOOSE x \in S : \A y \in S \ {x} : StrLess(x, y),
              LAMBDA m : <<m>> \o Once(S \ {m}, SortKeys))

\* n copies of the character c
Rep(c, n) == [i \in 1..n |-> c]

(***************************************************************************)
(* Stored records (storage.ts)                                             *)
(***************************************************************************)
\* StoredRecord: an undefined passwordHash is None, an undefined time NoTime
NoTime == 0 - 1

StoredRecord(type, content, passwordHash, createdAt, updatedAt) ==
    [type |-> type, content |-> content, passwordHash |-> passwordHash,
     createdAt |-> createdAt, updatedAt |-> updatedAt]

SYSTEM_KEYS ==
    { <<"_","_","A","D","M","I","N","_","P","A","S","S","W","O","R","D",
        "_","H","A","S","H","_","_">>,
      <<"_","_","R","A","T","E","_","L","I","M","I","T","S","_","_">> }

isSystemKey(key) == key \in SYSTEM_KEYS \/ StartsWith(key, <<"_", "_">>)

MaxKeyLength == 100

isValidKey(key) ==
    /\ \A i \in 1..Len(key) : key[i] \in KeyChar
    /\ Len(key) > 0
    /\ Len(key) <= MaxKeyLength

\* new URL(url) succeeds: without a base the URL parser needs a scheme (a
\* letter, then letters, digits, +, - or . up to a colon), and for a special
\* scheme a non-empty host after the slashes
SchemeChar == Lower \cup Upper \cup Digit \cup {"+", "-", "."}

SpecialScheme ==
    { <<"h","t","t","p">>, <<"h","t","t","p","s">>, <<"f","t","p">>,
      <<"w","s">>, <<"w","s","s">> }

RECURSIVE DropSlashes(_)
DropSlashes(s) ==
    IF s # <<>> /\ Head(s) \in {"/", "\\"} THEN DropSlashes(Tail(s)) ELSE s

isValidUrl(url) ==
    \E i \in 2..Len(url) :
        /\ url[i] = ":"
        /\ url[1] \in Lower \cup Upper
        /\ \A j \in 1..(i - 1) : url[j] \in SchemeChar
        /\ SubSeq(url, 1, i - 1) \in SpecialScheme
              => DropSlashes(DropFirst(url, i)) # <<>>

(***************************************************************************)
(* Bulk format codec (storage.ts)                                          *)
(***************************************************************************)
\* the placeholder the editor shows for an existing password
Placeholder == <<"*","*","*","*","*","*","*","*">>

Dashes == <<"-", "-", "-">>

Arrow == <<"-", ">">>

\* length of the longest prefix of s made of key characters
KeyRun(s) ==
    LET bad == {i \in 1..Len(s) : s[i] \notin KeyChar}
    IN  IF bad = {} THEN Len(s) ELSE MinOf(bad) - 1

\* index of the first "]" of s from i on, 0 when there is none
FirstClose(s, i) ==
    LET c == {j \in i..Len(s) : s[j] = "]"}
    IN  IF c = {} THEN 0 ELSE MinOf(c)

\* \s*(?:\[([^\]]+)\])?\s* at the start of s: the capture and what follows
BracketPart(s) ==
    LET t == TrimStart(s)
        j == FirstClose(t, 1)
    IN  IF t # <<>> /\ Head(t) = "[" /\ j >= 3
        THEN [password |-> SubSeq(t, 2, j - 1), rest |-> TrimStart(DropFirst(t, j))]
        ELSE [password |-> None, rest |-> t]

\* what follows the key matches \s*(?:\[([^\]]+)\])?\s*---$
NoteRest(s) == BracketPart(s).rest = Dashes

\* what follows the key matches \s*(?:\[([^\]]+)\])?\s*->\s*(.+)$
RedirectRest(s) ==
    LET r == BracketPart(s).rest
        u == TrimStart(DropFirst(r, 2))
    IN  /\ StartsWith(r, Arrow)
        /\ u # <<>>
        /\ \A i \in 1..Len(u) : u[i] \notin {"\r", NL}

\* the key the greedy, backtracking ([a-zA-Z0-9_-]+) settles on: the longest
\* prefix of key characters after which the rest of the pattern matches
KeyEnd(line, Rest(_)) ==
    LET n  == KeyRun(line)
        \* what follows the key starts the rest of the pattern: white space
        \* or [ (the key cannot take more), or the - of --- or ->
        ks == {k \in 1..n : /\ k = n \/ line[k + 1] = "-"
                            /\ Rest(DropFirst(line, k))}
    IN  IF ks = {} THEN 0 ELSE CHOOSE k \in ks : \A m \in ks : m <= k

\* line.match(/^([a-zA-Z0-9_-]+)\s*(?:\[([^\]]+)\])?\s*---$/)
NoteMatch(line) ==
    LET k == KeyEnd(line, NoteRest)
    IN  IF k = 0 THEN [ok |-> FALSE, key |-> <<>>, password |-> None]
        ELSE [ok |-> TRUE, key |-> SubSeq(line, 1, k),
              password |-> BracketPart(DropFirst(line, k)).password]

\* line.match(/^([a-zA-Z0-9_-]+)\s*(?:\[([^\]]+)\])?\s*->\s*(.+)$/)
RedirectMatch(line) ==
    LET k == KeyEnd(line, RedirectRest)
    IN  IF k = 0
        THEN [ok |-> FALSE, key |-> <<>>, password |-> None, url |-> <<>>]
        ELSE LET b == BracketPart(DropFirst(line, k))
             IN  [ok |-> TRUE, key |-> SubSeq(line, 1, k),
                  password |-> b.password,
                  url |-> TrimStart(DropFirst(b.rest, 2))]

\* ParsedEntry; bracket is the capture `password` of the line, kept beside
\* the rawPassword made of it
ParsedEntry(key, type, content, rawPassword, bracket) ==
    [key |-> key, record |-> [type |-> type, content |-> content],
     rawPassword |-> rawPassword, bracket |-> bracket]

\* if (password) entry.rawPassword = password
RawPasswordOf(password) == password

\* the error of an unclosed block naming the line after the opener
UnclosedErrorNextLine(key, line) ==
    [kind |-> "unclosed", key |-> key, line |-> line + 1]

UnclosedError(key, line) == [kind |-> "unclosed", key |-> key, line |-> line]

\* the error of a line of no format naming its 0-based index
UnrecognizedErrorZeroBased(line, text) ==
    [kind |-> "unrecognized", line |-> line - 1, text |-> text]

UnrecognizedError(line, text) ==
    [kind |-> "unrecognized", line |-> line, text |-> text]

\* the index of the first line from i on that is --- untrimmed
RECURSIVE CloseIndexUntrimmed(_, _)
CloseIndexUntrimmed(lines, i) ==
    IF i > Len(lines) \/ lines[i] = Dashes THEN i
    ELSE CloseIndexUntrimmed(lines, i + 1)

\* the index of the first line from i on whose trimmed form is ---, or
\* Len(lines) + 1
RECURSIVE CloseIndex(_, _)
CloseIndex(lines, i) ==
    IF i > Len(lines) \/ Trim(lines[i]) = Dashes THEN i
    ELSE CloseIndex(lines, i + 1)

\* the while loop of parseBulkFormat from line i (1-based) on
RECURSIVE ParseFrom(_, _, _, _)
ParseFrom(lines, i, entries, errors) ==
    IF i > Len(lines) THEN [entries |-> entries, errors |-> errors]
    ELSE
    LET Step(line, nm, rm) ==
            IF line = <<>> \/ Head(line) = "#"
            THEN ParseFrom(lines, i + 1, entries, errors)
            ELSE IF nm.ok
            THEN LET j == CloseIndex(lines, i + 1)
                     contentLines == Slice(lines, i + 1, j - 1)
                 IN  IF j > Len(lines)
                     THEN ParseFrom(lines, j, entries,
                              Append(errors,
                                  UnclosedError(nm.key, (j - 1) - Len(contentLines))))
                     ELSE ParseFrom(lines, j + 1,
                              Append(entries,
                                  ParsedEntry(nm.key, "note", JoinLines(contentLines),
                                              RawPasswordOf(nm.password),
                                              nm.password)),
                              errors)
            ELSE IF rm.ok
            THEN ParseFrom(lines, i + 1,
                     Append(entries,
                         ParsedEntry(rm.key, "uri", Trim(rm.url),
                                     RawPasswordOf(rm.password), rm.password)),
                     errors)
            ELSE ParseFrom(lines, i + 1, entries,
                     Append(errors, UnrecognizedError(i, line)))
    IN  Once(Trim(lines[i]),
             LAMBDA line : Once(<<NoteMatch(line), RedirectMatch(line)>>,
                                LAMBDA m : Step(line, m[1], m[2])))

parseBulkFormat(text) ==
    Once(SplitLines(text), LAMBDA lines : ParseFrom(lines, 1, <<>>, <<>>))

\* the six comment lines and the empty line that open every serialized text
HeaderLines ==
    << <<"#", " ", "r", "a", "j", ".", "q", "u", "e", "s", "t", " ", "R", "e", "d", "i", "r", "e", "c", "t", "s">>,
       <<"#", " ", "F", "o", "r", "m", "a", "t", ":", " ", "k", "e", "y", " ", "-", ">", " ", "u", "r", "l">>,
       <<"#", " ", "P", "a", "s", "s", "w", "o", "r", "d", " ", "p", "r", "o", "t", "e", "c", "t", "e", "d", ":", " ", "k", "e", "y", " ", "[", "p", "a", "s", "s", "w", "o", "r", "d", "]", " ", "-", ">", " ", "u", "r", "l">>,
       <<"#", " ", "N", "o", "t", "e", "s", ":", " ", "k", "e", "y", " ", "-", "-", "-">>,
       <<"#", " ", " ", " ", " ", " ", " ", " ", " ", "c", "o", "n", "t", "e", "n", "t", " ", "h", "e", "r", "e">>,
       <<"#", " ", " ", " ", " ", " ", " ", " ", " ", "-", "-", "-">>,
       <<>> >>

\* the bracket showing the stored hash
PasswordPlaceholderShowingHash(record) ==
    IF record.passwordHash # None
    THEN <<" ", "[">> \o record.passwordHash \o <<"]">>
    ELSE <<>>

\* hasPassword ? ' [********]' : ''
PasswordPlaceholder(record) ==
    IF record.passwordHash # None THEN <<" ", "[">> \o Placeholder \o <<"]">>
    ELSE <<>>

\* the lines of a record, with the line that closes a note block left out
RecordLinesUnclosed(key, record) ==
    IF record.type = "uri"
    THEN << key \o PasswordPlaceholder(record) \o <<" ", "-", ">", " ">>
               \o record.content >>
    ELSE << key \o PasswordPlaceholder(record) \o <<" ", "-", "-", "-">>,
            record.content, <<>> >>

\* the lines one record adds
RecordLines(key, record) ==
    IF record.type = "uri"
    THEN << key \o PasswordPlaceholder(record) \o <<" ", "-", ">", " ">>
               \o record.content >>
    ELSE IF record.type = "note"
    THEN << key \o PasswordPlaceholder(record) \o <<" ", "-", "-", "-">>,
            record.content, Dashes, <<>> >>
    ELSE <<>>

RECURSIVE SerializeKeys(_, _)
SerializeKeys(records, keys) ==
    IF keys = <<>> THEN <<>>
    ELSE RecordLines(Head(keys), records[Head(keys)])
             \o SerializeKeys(records, Tail(keys))

\* records: a function from the keys of the Map to their StoredRecord
serializeBulkFormat(records) ==
    JoinLines(HeaderLines \o SerializeKeys(records, SortKeys(DOMAIN records)))

(***************************************************************************)
(* The key-value collaborator and the record store facade (storage.ts)     *)
(***************************************************************************)
\* a stored value: the JSON of a record, or a string that is no JSON
KVJson(record) == [json |-> TRUE, record |-> record]

KVRaw == [json |-> FALSE, record |-> StoredRecord("", <<>>, None, NoTime, NoTime)]

EmptyKV == [k \in {} |-> KVRaw]

KVPut(store, key, value) ==
    [k \in (DOMAIN store) \cup {key} |-> IF k = key THEN value ELSE store[k]]

KVDelete(store, key) == [k \in (DOMAIN store) \ {key} |-> store[k]]

\* getRecord: null when the key is absent or its value does not parse
getRecord(store, key) ==
    IF key \in DOMAIN store /\ store[key].json
    THEN [found |-> TRUE, record |-> store[key].record]
    ELSE [found |-> FALSE, record |-> KVRaw.record]

\* record.createdAt || now
CreatedAt(record, t) == IF record.createdAt # NoTime THEN record.createdAt ELSE t

\* saveRecord at time t
saveRecord(store, key, record, t) ==
    KVPut(store, key,
          KVJson([record EXCEPT !.updatedAt = t, !.createdAt = CreatedAt(record, t)]))

deleteRecord(store, key) == KVDelete(store, key)

\* listAllRecords: the Map of the records of the keys that are no system keys
listAllRecords(store) ==
    [k \in {x \in DOMAIN store : ~isSystemKey(x) /\ getRecord(store, x).found}
        |-> getRecord(store, k).record]

(***************************************************************************)
(* Password hashing (admin.ts)                                             *)
(***************************************************************************)
\* the char codes of the characters of CodeOrder, which TextEncoder.encode
\* gives as their bytes
CharCodes ==
    <<9, 10, 13, 32, 35, 42, 45, 46, 47,
      48, 49, 50, 51, 52, 53, 54, 55, 56, 57, 58, 62,
      65, 66, 67, 68, 69, 70, 71, 72, 73, 74, 75, 76, 77,
      78, 79, 80, 81, 82, 83, 84, 85, 86, 87, 88, 89, 90,
      91, 93, 95,
      97, 98, 99, 100, 101, 102, 103, 104, 105, 106, 107, 108, 109,
      110, 111, 112, 113, 114, 115, 116, 117, 118, 119, 120, 121, 122>>

\* encoder.encode(password)
Utf8(password) == [i \in 1..Len(password) |-> CharCodes[Code(password[i])]]

Base64Alphabet ==
    <<"A","B","C","D","E","F","G","H","I","J","K","L","M",
      "N","O","P","Q","R","S","T","U","V","W","X","Y","Z",
      "a","b","c","d","e","f","g","h","i","j","k","l","m",
      "n","o","p","q","r","s","t","u","v","w","x","y","z",
      "0","1","2","3","4","5","6","7","8","9","+","/">>

\* the six bits a character of the alphabet stands for
Base64Index ==
    [c \in {Base64Alphabet[i] : i \in 1..64} |->
        (CHOOSE i \in 1..64 : Base64Alphabet[i] = c) - 1]

\* btoa(String.fromCharCode(...bytes)): three bytes give four characters,
\* the last group is padded with =
btoa(bytes) ==
    LET n == Len(bytes)
        Byte(i) == IF i <= n THEN bytes[i] ELSE 0
        Char(k) ==
            LET g == (k - 1) \div 4
                pos == (k - 1) % 4
                v == Byte(3 * g + 1) * 65536 + Byte(3 * g + 2) * 256 + Byte(3 * g + 3)
            IN  IF pos >= 2 /\ 3 * g + pos > n THEN "="
                ELSE Base64Alphabet[((v \div (64 ^ (3 - pos))) % 64) + 1]
    IN  [k \in 1..(4 * ((n + 2) \div 3)) |-> Char(k)]

\* atob(text), the forgiving base64 decode: white space is dropped, then the
\* padding of a text whose length is a multiple of four; a length of 4n + 1
\* or a character outside the alphabet raises; left-over bits are dropped
atob(text) ==
    LET t == SelectSeq(text, LAMBDA c : c \notin {" ", "\t", "\n", "\f", "\r"})
        pad == IF Len(t) % 4 # 0 \/ Len(t) = 0 \/ t[Len(t)] # "=" THEN 0
               ELSE IF t[Len(t) - 1] = "=" THEN 2 ELSE 1
        m == Len(t) - pad
        Six(i) == Base64Index[t[i]]
        Byte(j) ==
            LET bit == 8 * (j - 1)
                i == (bit \div 6) + 1
            IN  ((Six(i) * 64 + Six(i + 1)) \div (2 ^ (4 - (bit % 6)))) % 256
    IN  IF m % 4 = 1 \/ \E i \in 1..m : t[i] \notin DOMAIN Base64Index
        THEN [ok |-> FALSE, bytes |-> <<>>]
        ELSE [ok |-> TRUE, bytes |-> [j \in 1..((6 * m) \div 8) |-> Byte(j)]]

\* the bytes of the salt, and of the key PBKDF2 derives (256 bits)
SALT_BYTES == 16

KEY_BYTES == 32

\* the values crypto.getRandomValues can give the salt
Salt1 == [i \in 1..SALT_BYTES |-> 7]

Salt2 == [i \in 1..SALT_BYTES |-> 250 - i]

Salts == {Salt1, Salt2}

\* PBKDF2-SHA-256 with 100000 iterations, as an injective function of the
\* salt and the password that gives KEY_BYTES bytes
DeriveBits(salt, password) ==
    LET b == <<Len(salt)>> \o salt \o <<Len(password)>> \o Utf8(password)
    IN  [i \in 1..KEY_BYTES |-> IF i <= Len(b) THEN b[i] ELSE 0]

\* hashPassword with the salt drawn: btoa(salt || derived)
hashPassword(password, salt) == btoa(salt \o DeriveBits(salt, password))

\* verifyPassword taking one byte too few for the salt
verifyPasswordShortSalt(password, storedHash) ==
    LET Compare(combined) ==
            LET salt == Slice(combined, 1, Min(SALT_BYTES - 1, Len(combined)))
                originalHash == DropFirst(combined, Min(SALT_BYTES, Len(combined)))
                newHash == DeriveBits(salt, password)
            IN  [raised |-> FALSE,
                 value |-> Len(newHash) = Len(originalHash)
                              /\ newHash = originalHash]
    IN  Once(atob(storedHash),
             LAMBDA d : IF ~d.ok THEN [raised |-> TRUE, value |-> FALSE]
                        ELSE Compare(d.bytes))

\* the try block of verifyPassword: raised when atob throws
verifyPasswordTry(password, storedHash) ==
    LET Compare(combined) ==
            LET salt == Slice(combined, 1, Min(SALT_BYTES, Len(combined)))
                originalHash == DropFirst(combined, Min(SALT_BYTES, Len(combined)))
                newHash == DeriveBits(salt, password)
            IN  [raised |-> FALSE,
                 value |-> Len(newHash) = Len(originalHash)
                              /\ newHash = originalHash]
    IN  Once(atob(storedHash),
             LAMBDA d : IF ~d.ok THEN [raised |-> TRUE, value |-> FALSE]
                        ELSE Compare(d.bytes))

\* verifyPassword without the catch
verifyPasswordUncaught(password, storedHash) ==
    verifyPasswordTry(password, storedHash)

\* verifyPassword with its catch: what the caller gets
verifyPasswordOutcome(password, storedHash) ==
    Once(verifyPasswordTry(password, storedHash),
         LAMBDA r : IF r.raised THEN [raised |-> FALSE, value |-> FALSE] ELSE r)

\* verifyPassword
verifyPassword(password, storedHash) ==
    verifyPasswordOutcome(password, storedHash).value

(***************************************************************************)
(* Bulk save (admin.ts, handleSave)                                        *)
(***************************************************************************)
\* the validation errors of the entries, in order
RECURSIVE EntryErrors(_, _)
EntryErrors(entries, i) ==
    IF i > Len(entries) THEN <<>>
    ELSE LET e == entries[i]
         IN  (IF ~isValidKey(e.key)
              THEN <<[kind |-> "key", key |-> e.key]>> ELSE <<>>)
          \o (IF e.record.type = "uri" /\ ~isValidUrl(e.record.content)
              THEN <<[kind |-> "url", key |-> e.key]>> ELSE <<>>)
          \o EntryErrors(entries, i + 1)

\* the validation loop with the URL check left out
ValidationErrorsKeysOnly(entries) ==
    SelectSeq(entries, LAMBDA e : ~isValidKey(e.key))

ValidationErrors(entries) == EntryErrors(entries, 1)

NewKeys(entries) == {entries[i].key : i \in 1..Len(entries)}

\* every existing key, in listing order, whether submitted or not
KeysToDeleteAllExisting(existingRecords, newKeys) ==
    SortKeys(DOMAIN existingRecords)

\* the existing keys that are not in the submission, in listing order
KeysToDelete(existingRecords, newKeys) ==
    SortKeys({k \in DOMAIN existingRecords : k \notin newKeys})

\* the passwordHash of the record saved for an entry
PasswordHashOf(entry, existingRecords, salt) ==
    IF entry.rawPassword # None
    THEN hashPassword(entry.rawPassword, salt)
    ELSE IF entry.key \in DOMAIN existingRecords
            /\ existingRecords[entry.key].passwordHash # None
    THEN existingRecords[entry.key].passwordHash
    ELSE None

\* entry.record as handed to saveRecord
EntryRecord(entry, existingRecords, salt) ==
    StoredRecord(entry.record.type, entry.record.content,
                 PasswordHashOf(entry, existingRecords, salt),
                 IF entry.key \in DOMAIN existingRecords
                 THEN existingRecords[entry.key].createdAt ELSE NoTime,
                 NoTime)

RECURSIVE DeleteAll(_, _)
DeleteAll(store, keys) ==
    IF keys = <<>> THEN store
    ELSE Once(deleteRecord(store, Head(keys)),
              LAMBDA next : DeleteAll(next, Tail(keys)))

\* the save loop from entry i on; salts[i] is the salt drawn for entry i
RECURSIVE SaveEntries(_, _, _, _, _, _)
SaveEntries(store, entries, i, existingRecords, salts, t) ==
    IF i > Len(entries) THEN store
    ELSE Once(saveRecord(store, entries[i].key,
                         EntryRecord(entries[i], existingRecords, salts[i]), t),
              LAMBDA next :
                  SaveEntries(next, entries, i + 1, existingRecords, salts, t))

StoreOp(op, key) == [op |-> op, key |-> key]

\* the deletes and puts a save issues, in order
SaveOps(keysToDelete, entries) ==
    [i \in 1..Len(keysToDelete) |-> StoreOp("delete", keysToDelete[i])]
        \o [i \in 1..Len(entries) |-> StoreOp("put", entries[i].key)]

SaveOutcome(status, reason, store, ops) ==
    [status |-> status, reason |-> reason, store |-> store, ops |-> ops]

\* handleSave on the submitted content at time t: the response status, the
\* store afterwards and the store operations issued
handleSave(store, content, salts, t) ==
    LET Save(entries, existingRecords, keysToDelete) ==
            SaveOutcome(200, "saved",
                SaveEntries(DeleteAll(store, keysToDelete), entries, 1,
                            existingRecords, salts, t),
                SaveOps(keysToDelete, entries))
        Checked(parsed, existingRecords) ==
            IF content = <<>>
            THEN SaveOutcome(400, "no content", store, <<>>)
            ELSE IF parsed.errors # <<>>
            THEN SaveOutcome(400, "parse errors", store, <<>>)
            ELSE IF ValidationErrors(parsed.entries) # <<>>
            THEN SaveOutcome(400, "validation errors", store, <<>>)
            ELSE Once(KeysToDelete(existingRecords, NewKeys(parsed.entries)),
                      LAMBDA keysToDelete :
                          Save(parsed.entries, existingRecords, keysToDelete))
    IN  Once(<<parseBulkFormat(content), listAllRecords(store)>>,
             LAMBDA v : Checked(v[1], v[2]))

(***************************************************************************)
(* Password gate (index.ts)                                                *)
(***************************************************************************)
UNLOCK_COOKIE_PREFIX == <<"r", "a", "j", "_", "q", "u", "e", "s", "t", "_", "u", "n", "l", "o", "c", "k", "_">>

UNLOCK_DURATION_HOURS == 1

MAX_UNLOCK_ATTEMPTS == 10

UNLOCK_RATE_LIMIT_WINDOW_MS == 60 * 60 * 1000

\* String.prototype.split on one character
SplitOn(text, ch) ==
    LET at == {i \in 1..Len(text) : text[i] = ch}
        At(k) == IF k = 0 THEN 0
                 ELSE IF k > Cardinality(at) THEN Len(text) + 1
                 ELSE CHOOSE i \in at : Cardinality({j \in at : j <= i}) = k
    IN  [k \in 1..(Cardinality(at) + 1) |-> Slice(text, At(k - 1) + 1, At(k) - 1)]

CookieName(key) == UNLOCK_COOKIE_PREFIX \o key

\* the first cookie of the list whose name starts with cookieName
RECURSIVE FindCookieStartingWith(_, _, _)
FindCookieStartingWith(cookies, cookieName, i) ==
    IF i > Len(cookies) THEN [found |-> FALSE, value |-> None]
    ELSE LET parts == SplitOn(Trim(cookies[i]), "=")
         IN  IF StartsWith(parts[1], cookieName)
             THEN [found |-> TRUE,
                   value |-> IF Len(parts) >= 2 THEN parts[2] ELSE None]
             ELSE FindCookieStartingWith(cookies, cookieName, i + 1)

\* the first cookie of the list whose name is cookieName, from index i on
RECURSIVE FindCookie(_, _, _)
FindCookie(cookies, cookieName, i) ==
    IF i > Len(cookies) THEN [found |-> FALSE, value |-> None]
    ELSE LET parts == SplitOn(Trim(cookies[i]), "=")
         IN  IF parts[1] = cookieName
             THEN [found |-> TRUE,
                   value |-> IF Len(parts) >= 2 THEN parts[2] ELSE None]
             ELSE FindCookie(cookies, cookieName, i + 1)

\* getUnlockCookie: found is FALSE where the code returns null; cookieHeader
\* is None when the request has no Cookie header
getUnlockCookie(cookieHeader, key) ==
    IF cookieHeader = None \/ cookieHeader = <<>>
    THEN [found |-> FALSE, value |-> None]
    ELSE FindCookie(SplitOn(cookieHeader, ";"), CookieName(key), 1)

\* isUnlocked
isUnlocked(cookieHeader, key) == getUnlockCookie(cookieHeader, key).found

\* createUnlockCookie with the token crypto.randomUUID gave
createUnlockCookie(key, token) ==
    [name |-> CookieName(key), value |-> token, path |-> <<"/">> \o key,
     maxAge |-> UNLOCK_DURATION_HOURS * 60 * 60,
     httpOnly |-> TRUE, secure |-> TRUE, sameSite |-> "Strict"]

\* `${ip}:${key}`
\* the map key without the separator
RateLimitKeyJoined(ip, key) == ip \o key

\* `${ip}:${key}`
RateLimitKey(ip, key) == ip \o <<":">> \o key

RateEntry(attempts, resetAt) == [attempts |-> attempts, resetAt |-> resetAt]

\* Math.ceil(n / 1000) for an integer n
\* Math.floor(n / 1000) in place of Math.ceil
FloorSeconds(n) == n \div 1000

CeilSeconds(n) == IF n % 1000 = 0 THEN n \div 1000 ELSE (n \div 1000) + 1

MapDelete(map, k) == [x \in (DOMAIN map) \ {k} |-> map[x]]

MapSet(map, k, v) == [x \in (DOMAIN map) \cup {k} |-> IF x = k THEN v ELSE map[x]]

EmptyMap == [x \in {} |-> RateEntry(0, 0)]

\* the map after the clean-up of checkUnlockRateLimit
CleanExpired(map, ip, key, t) ==
    LET k == RateLimitKey(ip, key)
    IN  IF k \in DOMAIN map /\ map[k].resetAt < t THEN MapDelete(map, k) ELSE map

\* checkUnlockRateLimit that allows the attempt that reaches the maximum
checkUnlockRateLimitOffByOne(map, ip, key, t) ==
    LET k == RateLimitKey(ip, key)
        m == CleanExpired(map, ip, key, t)
    IN  IF k \in DOMAIN m /\ m[k].attempts > MAX_UNLOCK_ATTEMPTS
        THEN [allowed |-> FALSE, retryAfter |-> CeilSeconds(m[k].resetAt - t),
              map |-> m]
        ELSE [allowed |-> TRUE, retryAfter |-> 0, map |-> m]

\* checkUnlockRateLimit that keeps counting attempts of an expired window
checkUnlockRateLimitNoExpiry(map, ip, key, t) ==
    LET k == RateLimitKey(ip, key)
    IN  IF k \in DOMAIN map /\ map[k].attempts >= MAX_UNLOCK_ATTEMPTS
        THEN [allowed |-> FALSE, retryAfter |-> CeilSeconds(map[k].resetAt - t),
              map |-> map]
        ELSE [allowed |-> TRUE, retryAfter |-> 0, map |-> map]

\* checkUnlockRateLimit that counts every allowed check as an attempt
checkUnlockRateLimitCounting(map, ip, key, t) ==
    LET k == RateLimitKey(ip, key)
        m == CleanExpired(map, ip, key, t)
        n == IF k \in DOMAIN m THEN m[k].attempts ELSE 0
    IN  IF n >= MAX_UNLOCK_ATTEMPTS
        THEN [allowed |-> FALSE, retryAfter |-> CeilSeconds(m[k].resetAt - t),
              map |-> m]
        ELSE [allowed |-> TRUE, retryAfter |-> 0,
              map |-> MapSet(m, k, RateEntry(n + 1,
                                 IF k \in DOMAIN m THEN m[k].resetAt
                                 ELSE t + UNLOCK_RATE_LIMIT_WINDOW_MS))]

\* checkUnlockRateLimit at time t: the answer and the map afterwards
checkUnlockRateLimit(map, ip, key, t) ==
    LET k == RateLimitKey(ip, key)
        m == CleanExpired(map, ip, key, t)
    IN  IF k \notin DOMAIN m
        THEN [allowed |-> TRUE, retryAfter |-> 0, map |-> m]
        ELSE IF m[k].attempts >= MAX_UNLOCK_ATTEMPTS
        THEN [allowed |-> FALSE, retryAfter |-> CeilSeconds(m[k].resetAt - t),
              map |-> m]
        ELSE [allowed |-> TRUE, retryAfter |-> 0, map |-> m]

\* recordUnlockAttempt that starts a new window at every failure
recordUnlockAttemptRestarting(map, ip, key, t) ==
    MapSet(map, RateLimitKey(ip, key),
           RateEntry(1, t + UNLOCK_RATE_LIMIT_WINDOW_MS))

\* recordUnlockAttempt at time t
recordUnlockAttempt(map, ip, key, t) ==
    LET k == RateLimitKey(ip, key)
    IN  IF k \notin DOMAIN map \/ map[k].resetAt < t
        THEN MapSet(map, k, RateEntry(1, t + UNLOCK_RATE_LIMIT_WINDOW_MS))
        ELSE MapSet(map, k, RateEntry(map[k].attempts + 1, map[k].resetAt))

\* clearUnlockRateLimit that leaves the entry in place
clearUnlockRateLimitKeeping(map, ip, key) == map

\* clearUnlockRateLimit
clearUnlockRateLimit(map, ip, key) == MapDelete(map, RateLimitKey(ip, key))

\* verifyRecordPassword
verifyRecordPassword(password, record) ==
    IF record.passwordHash = None THEN TRUE
    ELSE verifyPassword(password, record.passwordHash)

(***************************************************************************)
(* Public handlers (part_002)                                              *)
(***************************************************************************)
\* a response: content is the record content it carries (the redirect
\* target or the note), delayed whether addResponseDelay came before it,
\* verified whether the password was verified, setCookie the cookie it sets
NoRetryAfter == 0 - 1

Response(status, body, content, delayed, verified, setCookie) ==
    [status |-> status, body |-> body, content |-> content,
     delayed |-> delayed, verified |-> verified, setCookie |-> setCookie,
     retryAfter |-> NoRetryAfter]

NoCookie == [name |-> <<>>, value |-> None, path |-> <<>>, maxAge |-> 0,
             httpOnly |-> FALSE, secure |-> FALSE, sameSite |-> "none"]

\* the 429 of handleUnlock, with its Retry-After header
TooManyResponse(retryAfter) ==
    [Response(429, "too many attempts", <<>>, TRUE, FALSE, NoCookie)
        EXCEPT !.retryAfter = retryAfter]

get404Response == Response(404, "not found", <<>>, TRUE, FALSE, NoCookie)

PromptResponse(status, error, verified) ==
    Response(status, error, <<>>, TRUE, verified, NoCookie)

\* handleGet for a request with the given Cookie header
handleGet(store, cookieHeader, key) ==
    LET r == getRecord(store, key)
    IN  IF ~r.found THEN get404Response
        ELSE IF r.record.passwordHash # None /\ ~isUnlocked(cookieHeader, key)
        THEN PromptResponse(200, "prompt", FALSE)
        ELSE IF r.record.type = "uri"
        THEN Response(302, "redirect", r.record.content, TRUE, FALSE, NoCookie)
        ELSE IF r.record.type = "note"
        THEN Response(200, "note", r.record.content, TRUE, FALSE, NoCookie)
        ELSE get404Response

\* handleRaw for a request with the given Cookie header
\* the raw endpoint answering as handleGet does
handleRawAsGet(store, cookieHeader, key) == handleGet(store, cookieHeader, key)

handleRaw(store, cookieHeader, key) ==
    LET r == getRecord(store, key)
    IN  IF ~r.found THEN get404Response
        ELSE IF r.record.passwordHash # None /\ ~isUnlocked(cookieHeader, key)
        THEN Response(401, "unauthorized", <<>>, TRUE, FALSE, NoCookie)
        ELSE Response(200, "raw", r.record.content, TRUE, FALSE, NoCookie)

(***************************************************************************)
(* The texts an administrator submits                                      *)
(***************************************************************************)
\* the documents submitted, as lines
SaveDocs ==
    LET
        LineRedirectA == <<"a", " ", "-", ">", " ", "h", ":", "u">>
        LineRedirectA2 == <<"a", " ", "-", ">", " ", "h", ":", "v">>
        LinePlaceholderA == <<"a", " ", "[", "*", "*", "*", "*", "*", "*", "*", "*", "]", " ", "-", ">", " ", "h", ":", "u">>
        LinePasswordA == <<"a", " ", "[", "p", "]", " ", "-", ">", " ", "h", ":", "u">>
        LineNoteB == <<"b", " ", "-", "-", "-">>
        LinePlaceholderNoteB == <<"b", " ", "[", "*", "*", "*", "*", "*", "*", "*", "*", "]", " ", "-", "-", "-">>
        LinePasswordNoteB == <<"b", " ", "[", "q", "]", " ", "-", "-", "-">>
        LineHi == <<"H", "i">>
        LineSystem == <<"_", "_", "s", " ", "-", ">", " ", "h", ":", "u">>
        LineBadUrl == <<"a", " ", "-", ">", " ", "x">>
        LineComment == <<"#", " ", "c">>
        \* a redirect line whose key is one character longer than isValidKey allows
        LineLongKey == Rep("k", MaxKeyLength + 1) \o <<" ", "-", ">", " ", "h", ":", "u">>
    IN
        { <<>>,
          <<LineRedirectA>>,
          <<LinePlaceholderA>>,
          <<LinePasswordA>>,
          <<LineRedirectA, LineNoteB, LineHi, Dashes>>,
          <<LineComment, LinePasswordA, <<>>, LinePasswordNoteB, LineHi, Dashes>>,
          <<LinePlaceholderA, LinePlaceholderNoteB, LineHi, Dashes, <<>>>>,
          <<LinePasswordA, LineRedirectA2>>,
          <<LineSystem>>,
          <<LineRedirectA, LineSystem>>,
          <<LineBadUrl>>,
          <<LineNoteB, LineHi, Dashes, LineBadUrl>>,
          <<LineLongKey>>,
          <<LineRedirectA, LineHi>>,
          <<LineRedirectA, LineNoteB, LineHi>> }

\* the texts a save can be given: the documents above, and the text the
\* dashboard shows for the store, resubmitted unedited
SaveTexts(store) ==
    {JoinLines(d) : d \in SaveDocs} \cup {serializeBulkFormat(listAllRecords(store))}

(***************************************************************************)
(* State                                                                   *)
(***************************************************************************)
VARIABLES
    kv,       \* the KV namespace REDIRECTS: key -> stored value
    now,      \* the clock, Date.now()
    ticks,    \* how often the clock has advanced
    saves,    \* how many save requests have been handled
    last,     \* the last save request: its text, the store before it, its
              \* outcome; per stored key the time of the save that created
              \* it, and the time of the last save that succeeded
    unlockRateLimitMap,  \* `${ip}:${key}` -> {attempts, resetAt}
    reqs,     \* the unlock requests in flight, by slot
    resp,     \* the last response of a public handler, with its request
    issued,   \* the unlock tokens issued: token -> the key and the time
    hist,     \* per pair, the failed verifications since the last success
    requests, \* how many steps the public handlers have taken
    prev,     \* the response of handleUnlock before the last response
    cRecords, \* codec: the record map given to serializeBulkFormat
    cText,    \* codec: the text serialized or to be parsed
    cParsed,  \* codec: the result of parseBulkFormat
    cPc,      \* codec: what has been applied
    cDoc,     \* codec: the pieces the text to be parsed is made of
    hPassword, \* hashing: the password given to hashPassword
    hQuery,    \* hashing: the password given to verifyPassword
    hToken,    \* hashing: the stored token, and how it came about
    hOut,      \* hashing: what verifyPassword did
    hPc,       \* hashing: what has been applied
    ck,        \* cookies: an unlock cookie issued for a key and shown for a key
    bulk,      \* admin: the admin request in progress, step by step
    loop,      \* parsing: parseBulkFormat in progress, iteration by iteration
    race       \* racing: two admin requests in progress at once, by slot

storeVars == <<kv, now, ticks, saves, last>>

gateVars == <<unlockRateLimitMap, reqs, resp, issued, hist, requests, prev>>

codecVars == <<cRecords, cText, cParsed, cPc, cDoc>>

hashVars == <<hPassword, hQuery, hToken, hOut, hPc>>

cookieVars == <<ck>>

adminVars == <<bulk>>

loopVars == <<loop>>

raceVars == <<race>>

pureVars == <<codecVars, hashVars, cookieVars, adminVars, loopVars,
              raceVars>>

vars == <<kv, now, ticks, saves, last, unlockRateLimitMap, reqs, resp, issued,
          hist, requests, prev, cRecords, cText, cParsed, cPc, cDoc,
          hPassword, hQuery, hToken, hOut, hPc, ck, bulk, loop, race>>

MaxSaves == 2

MaxTicks == 1

MaxGateTicks == 2

MaxAccessSteps == 5

NoSave ==
    [status |-> 0, reason |-> "none", text |-> <<>>, pre |-> EmptyKV, ops |-> <<>>,
     created |-> EmptyKV, savedAt |-> NoTime]

\* the unlock requests that can be in flight at once
Slots == {1, 2}

IdleRequest ==
    [pc |-> "idle", ip |-> <<>>, key |-> <<>>, password |-> <<>>,
     passwordHash |-> None, gate |-> "clear"]

NoResponse ==
    [handler |-> "none", ip |-> <<>>, key |-> <<>>, password |-> <<>>,
     cookie |-> None, gate |-> "clear", credential |-> "none",
     response |-> Response(0, "none", <<>>, FALSE, FALSE, NoCookie)]

NoRecords == [k \in {} |-> StoredRecord("", <<>>, None, NoTime, NoTime)]

NoParse == [entries |-> <<>>, errors |-> <<>>]

StoreIdle ==
    /\ now = 0
    /\ ticks = 0
    /\ saves = 0
    /\ last = NoSave

GateIdle ==
    /\ unlockRateLimitMap = EmptyMap
    /\ reqs = [r \in Slots |-> IdleRequest]
    /\ resp = NoResponse
    /\ issued = [t \in {} |-> [key |-> <<>>, at |-> 0]]
    /\ hist = [k \in {} |-> [since |-> 0, fails |-> 0, start |-> 0]]
    /\ requests = 0
    /\ prev = NoResponse

CodecIdle ==
    /\ cRecords = NoRecords
    /\ cText = <<>>
    /\ cParsed = NoParse
    /\ cPc = "idle"
    /\ cDoc = <<>>

NoToken == [kind |-> "none", text |-> <<>>]

NoVerdict == [raised |-> FALSE, value |-> FALSE]

NoCheck ==
    [key |-> <<>>, other |-> <<>>, token |-> <<>>, crowded |-> FALSE,
     header |-> <<>>, unlocked |-> FALSE, pc |-> "none"]

HashIdle ==
    /\ hPassword = <<>>
    /\ hQuery = <<>>
    /\ hToken = NoToken
    /\ hOut = NoVerdict
    /\ hPc = "idle"

CookieIdle == ck = NoCheck

NoBulk ==
    [pc |-> "none", status |-> 0, email |-> None, allowed |-> None,
     route |-> "none", content |-> <<>>, parallel |-> FALSE, fresh |-> {},
     size |-> 1, pages |-> <<>>, entries |-> <<>>, existing |-> NoRecords,
     queue |-> <<>>, pending |-> {}, hashing |-> {}, records |-> <<>>,
     events |-> <<>>, shown |-> <<>>, resubmitted |-> FALSE]

AdminIdle == bulk = NoBulk

NoLoop ==
    [pc |-> "none", lines |-> <<>>, i |-> 1, entries |-> <<>>, errors |-> <<>>,
     key |-> <<>>, password |-> None, contentLines |-> <<>>, consumed |-> <<>>]

LoopIdle == loop = NoLoop

\* an admin request of the race: a bulk save or a quick-add
NoRacer ==
    [kind |-> "none", pc |-> "none", status |-> 0, content |-> <<>>,
     key |-> <<>>, url |-> <<>>, queue |-> <<>>, overwrote |-> FALSE]

RaceIdle == race = <<NoRacer, NoRacer>>

(***************************************************************************)
(* Bulk saves                                                              *)
(***************************************************************************)
InitSave ==
    /\ kv = EmptyKV
    /\ StoreIdle
    /\ GateIdle
    /\ CodecIdle
    /\ HashIdle
    /\ CookieIdle
    /\ AdminIdle
    /\ LoopIdle
    /\ RaceIdle

\* the salts hashPassword can draw for the entries that name a password
SaltChoices(entries) ==
    {f \in [1..Len(entries) -> Salts] :
        \A i \in 1..Len(entries) : entries[i].rawPassword = None => f[i] = Salt1}

\* POST /admin/save with the given content
SaveRequest(text) ==
    /\ saves < MaxSaves
    /\ \E entries \in {parseBulkFormat(text).entries} :
       \E salts \in SaltChoices(entries) :
       \E out \in {handleSave(kv, text, salts, now)} :
          /\ kv' = out.store
          /\ last' = [status |-> out.status, reason |-> out.reason,
                      text |-> text, pre |-> kv, ops |-> out.ops,
                      created |-> [k \in DOMAIN out.store |->
                                      IF k \in DOMAIN kv THEN last.created[k]
                                      ELSE now],
                      savedAt |-> IF out.status = 200 THEN now ELSE last.savedAt]
    /\ saves' = saves + 1
    /\ UNCHANGED <<now, ticks>>
    /\ UNCHANGED gateVars
    /\ UNCHANGED pureVars

\* the clock advances between two saves
SaveTick ==
    /\ ticks < MaxTicks
    /\ now' = now + 1
    /\ ticks' = ticks + 1
    /\ UNCHANGED <<kv, saves, last>>
    /\ UNCHANGED gateVars
    /\ UNCHANGED pureVars

SaveStep == \E text \in SaveTexts(kv) : SaveRequest(text)

NextSave ==
    \/ SaveStep
    \/ SaveTick

SpecSave == InitSave /\ [][NextSave]_vars

(***************************************************************************)
(* The password gate: GET and unlock requests against a store that holds   *)
(* a protected note, an open redirect and no third key                     *)
(***************************************************************************)
KeyA == <<"a">>

KeyB == <<"b">>

KeyC == <<"c">>

GateKeys == {KeyA, KeyB, KeyC}

GoodPassword == <<"p">>

\* the passwords submitted: the right one, a wrong one, none
Passwords == {GoodPassword, <<"x">>, <<>>}

\* the store after the bulk save of a protected note a and a redirect b
GateStore ==
    saveRecord(
        saveRecord(EmptyKV, KeyA,
            StoredRecord("note", <<"H", "i">>, hashPassword(GoodPassword, Salt1),
                         NoTime, NoTime), 0),
        KeyB,
        StoredRecord("uri", <<"h", ":", "u">>, None, NoTime, NoTime), 0)

\* a verification that accepts every password
PasswordVerdictsAcceptingAll ==
    [password \in Passwords, storedHash \in {None, hashPassword(GoodPassword, Salt1)} |->
        TRUE]

\* what verifyPassword answers for the passwords sent and the hashes the
\* records of the store can hold, computed once
PasswordVerdicts ==
    [password \in Passwords, storedHash \in {None, hashPassword(GoodPassword, Salt1)} |->
        verifyPassword(password, storedHash)]

\* the value crypto.randomUUID gives
Tokens == {<<"t", "1">>}

ForgedToken == <<"f">>

\* the Cookie headers requests carry: none, or one unlock cookie, named for
\* any key, with an issued or a made-up value
CookieHeaders ==
    {None} \cup
    {CookieName(k) \o <<"=">> \o v : k \in {KeyA, KeyB}, v \in Tokens \cup {ForgedToken}}

InitGate ==
    /\ kv = GateStore
    /\ StoreIdle
    /\ GateIdle
    /\ CodecIdle
    /\ HashIdle
    /\ CookieIdle
    /\ AdminIdle
    /\ LoopIdle
    /\ RaceIdle

\* the state of a pair in the words of the design: clear, counting failures,
\* limited, or expired (the window of the counted failures is over)
GateState(k, t) ==
    IF k \notin DOMAIN hist \/ hist[k].fails = 0 THEN "clear"
    ELSE IF t > hist[k].start + UNLOCK_RATE_LIMIT_WINDOW_MS THEN "expired"
    ELSE IF hist[k].fails >= MAX_UNLOCK_ATTEMPTS THEN "limited"
    ELSE "counting"

\* hist after a failed verification at time t
HistFailure(k, t) ==
    LET since == IF k \in DOMAIN hist THEN hist[k].since ELSE 0
    IN  IF GateState(k, t) \in {"clear", "expired"}
        THEN MapSet(hist, k, [since |-> since + 1, fails |-> 1, start |-> t])
        ELSE MapSet(hist, k, [since |-> since + 1, fails |-> hist[k].fails + 1,
                              start |-> hist[k].start])

\* what the unlock cookie a request carries for the key is: "none" when it
\* carries none, "never issued" when no unlock of the key gave its value,
\* "expired" when its Max-Age is over at time t, "valid" otherwise
Credential(cookieHeader, key, t) ==
    LET c == getUnlockCookie(cookieHeader, key)
    IN  IF ~c.found THEN "none"
        ELSE IF c.value \notin DOMAIN issued \/ issued[c.value].key # key
        THEN "never issued"
        ELSE IF t >= issued[c.value].at + UNLOCK_DURATION_HOURS * 60 * 60 * 1000
        THEN "expired"
        ELSE "valid"

Answer(handler, ip, key, password, cookie, gate, credential, response) ==
    [handler |-> handler, ip |-> ip, key |-> key, password |-> password,
     cookie |-> cookie, gate |-> gate, credential |-> credential,
     response |-> response]

\* handleUnlock up to its first await: the rate limit check
UnlockStart(r, ip, key, password) ==
    LET check == checkUnlockRateLimit(unlockRateLimitMap, ip, key, now)
        gate  == GateState(RateLimitKey(ip, key), now)
    IN  /\ reqs[r].pc = "idle"
        /\ unlockRateLimitMap' = check.map
        /\ IF ~check.allowed
           THEN /\ resp' = Answer("unlock", ip, key, password, None, gate,
                               "none", TooManyResponse(check.retryAfter))
                /\ UNCHANGED reqs
           ELSE /\ reqs' = [reqs EXCEPT ![r] =
                               [pc |-> "getRecord", ip |-> ip, key |-> key,
                                password |-> password, passwordHash |-> None,
                                gate |-> gate]]
                /\ UNCHANGED resp
        /\ UNCHANGED <<issued, hist>>
        /\ UNCHANGED storeVars
        /\ UNCHANGED pureVars

\* handleUnlock from getRecord to the await of the verification
UnlockGetRecord(r) ==
    LET q == reqs[r]
        rec == getRecord(kv, q.key)
        answer(response) ==
            /\ resp' = Answer("unlock", q.ip, q.key, q.password, None, q.gate, "none",
                              response)
            /\ reqs' = [reqs EXCEPT ![r] = IdleRequest]
    IN  /\ q.pc = "getRecord"
        /\ IF ~rec.found
           THEN answer(get404Response)
           ELSE IF rec.record.passwordHash = None
           THEN answer(Response(302, "redirect to key", <<>>, FALSE, FALSE, NoCookie))
           ELSE IF q.password = <<>>
           THEN answer(PromptResponse(400, "password required", FALSE))
           ELSE /\ reqs' = [reqs EXCEPT ![r].pc = "verify",
                                        ![r].passwordHash = rec.record.passwordHash]
                /\ UNCHANGED resp
        /\ UNCHANGED <<unlockRateLimitMap, issued, hist>>
        /\ UNCHANGED storeVars
        /\ UNCHANGED pureVars

\* handleUnlock once the verification has resolved
UnlockVerify(r, token) ==
    LET q == reqs[r]
        k == RateLimitKey(q.ip, q.key)
    IN  /\ q.pc = "verify"
        /\ reqs' = [reqs EXCEPT ![r] = IdleRequest]
        /\ IF ~PasswordVerdicts[q.password, q.passwordHash]
           THEN /\ unlockRateLimitMap' =
                       recordUnlockAttempt(unlockRateLimitMap, q.ip, q.key, now)
                /\ hist' = HistFailure(k, now)
                /\ resp' = Answer("unlock", q.ip, q.key, q.password, None, q.gate,
                               "none", PromptResponse(401, "incorrect password", TRUE))
                /\ UNCHANGED issued
           ELSE /\ unlockRateLimitMap' =
                       clearUnlockRateLimit(unlockRateLimitMap, q.ip, q.key)
                /\ hist' = MapDelete(hist, k)
                /\ resp' = Answer("unlock", q.ip, q.key, q.password, None, q.gate,
                               "none", Response(302, "unlocked", <<>>, FALSE, TRUE,
                                        createUnlockCookie(q.key, token)))
                /\ issued' = MapSet(issued, token, [key |-> q.key, at |-> now])
        /\ UNCHANGED storeVars
        /\ UNCHANGED pureVars

\* GET /:key
GetRequest(key, cookieHeader) ==
    /\ resp' = Answer("get", <<>>, key, <<>>, cookieHeader, "clear",
                      Credential(cookieHeader, key, now),
                      handleGet(kv, cookieHeader, key))
    /\ UNCHANGED <<unlockRateLimitMap, reqs, issued, hist>>
    /\ UNCHANGED storeVars
    /\ UNCHANGED pureVars

\* GET /raw/:key
RawRequest(key, cookieHeader) ==
    /\ resp' = Answer("raw", <<>>, key, <<>>, cookieHeader, "clear",
                      Credential(cookieHeader, key, now),
                      handleRaw(kv, cookieHeader, key))
    /\ UNCHANGED <<unlockRateLimitMap, reqs, issued, hist>>
    /\ UNCHANGED storeVars
    /\ UNCHANGED pureVars

\* the amounts of time that pass between two steps, in milliseconds
GateTickSteps == {1, UNLOCK_RATE_LIMIT_WINDOW_MS}

GateTick(d) ==
    /\ ticks < MaxGateTicks
    /\ now' = now + d
    /\ ticks' = ticks + 1
    /\ UNCHANGED <<kv, saves, last>>
    /\ UNCHANGED <<unlockRateLimitMap, reqs, resp, issued, hist>>
    /\ UNCHANGED pureVars

\* the unlock requests sent: passwords matter for the protected key only
UnlockInputs ==
    {<<KeyA, p>> : p \in Passwords} \cup {<<KeyB, <<"x">>>>, <<KeyC, <<"x">>>>}

\* one client sending its unlock requests one after the other
GateIp == <<"1">>

GateStart ==
    /\ \E r \in Slots, in \in UnlockInputs : UnlockStart(r, GateIp, in[1], in[2])
    /\ UNCHANGED <<requests, prev>>

GateGetRecord == (\E r \in Slots : UnlockGetRecord(r)) /\ UNCHANGED <<requests, prev>>

GateVerify == (\E r \in Slots, token \in Tokens : UnlockVerify(r, token)) /\ UNCHANGED <<requests, prev>>

GateClock == (\E d \in GateTickSteps : GateTick(d)) /\ UNCHANGED <<requests, prev>>

NextGate ==
    \/ GateStart
    \/ GateGetRecord
    \/ GateVerify
    \/ GateClock

SpecGate == InitGate /\ [][NextGate]_vars

(***************************************************************************)
(* Access: a few GET and unlock requests, with the cookies clients send    *)
(***************************************************************************)
\* a step of the public handlers, counted
Counted(A) ==
    /\ requests < MaxAccessSteps
    /\ A
    /\ requests' = requests + 1
    /\ prev' = IF resp' # resp /\ resp.handler = "unlock" THEN resp ELSE prev

AccessStart ==
    Counted(\E in \in UnlockInputs : UnlockStart(1, GateIp, in[1], in[2]))

AccessGetRecord == Counted(UnlockGetRecord(1))

AccessVerify == Counted(\E token \in Tokens : UnlockVerify(1, token))

AccessGet ==
    Counted(\E key \in GateKeys, cookieHeader \in CookieHeaders :
                GetRequest(key, cookieHeader))

AccessRaw ==
    Counted(\E key \in GateKeys, cookieHeader \in CookieHeaders :
                RawRequest(key, cookieHeader))

AccessClock == Counted(\E d \in GateTickSteps : GateTick(d))

NextAccess ==
    \/ AccessStart
    \/ AccessGetRecord
    \/ AccessVerify
    \/ AccessGet
    \/ AccessRaw
    \/ AccessClock

SpecAccess == InitGate /\ [][NextAccess]_vars

(***************************************************************************)
(* The codec: a record map is serialized, and the text parsed              *)
(***************************************************************************)
MaxCodecKeys == 2

\* valid keys: one with a hyphen at its end, one in upper case
CodecKeyOrder == <<KeyA, <<"b", "-">>, <<"C">>, <<"d", "_">>>>

CodecKeys == {CodecKeyOrder[i] : i \in 1..Min(MaxCodecKeys, Len(CodecKeyOrder))}

\* the records of a key: redirects and notes (of one line, of two lines with
\* a blank one, with a line of three dashes), with and without a password
CodecRecords ==
    {StoredRecord(tc[1], tc[2], h, 0, 0) :
        tc \in { <<"uri", <<"h", ":", "u">>>>,
                 <<"note", <<"H", "i">>>>,
                 <<"note", <<"H", NL, NL, "#">>>>,
                 <<"note", <<"H", NL, "-", "-", "-">>>> },
        h \in {None, hashPassword(GoodPassword, Salt1),
                hashPassword(<<"x">>, Salt2)}}

CodecMaps ==
    UNION {[ks -> CodecRecords] : ks \in SUBSET CodecKeys}

InitCodec ==
    /\ kv = EmptyKV
    /\ StoreIdle
    /\ GateIdle
    /\ cRecords \in CodecMaps
    /\ cText = <<>>
    /\ cParsed = NoParse
    /\ cPc = "idle"
    /\ cDoc = <<>>
    /\ HashIdle
    /\ CookieIdle
    /\ AdminIdle
    /\ LoopIdle
    /\ RaceIdle

Serialize ==
    /\ cPc = "idle"
    /\ cText' = serializeBulkFormat(cRecords)
    /\ cPc' = "serialized"
    /\ UNCHANGED <<cRecords, cParsed, cDoc>>
    /\ UNCHANGED <<hashVars, cookieVars, adminVars, loopVars, raceVars>>
    /\ UNCHANGED storeVars
    /\ UNCHANGED gateVars

Parse ==
    /\ cPc = "serialized"
    /\ cParsed' = parseBulkFormat(cText)
    /\ cPc' = "parsed"
    /\ UNCHANGED <<cRecords, cText, cDoc>>
    /\ UNCHANGED <<hashVars, cookieVars, adminVars, loopVars, raceVars>>
    /\ UNCHANGED storeVars
    /\ UNCHANGED gateVars

NextCodec ==
    \/ Serialize
    \/ Parse

SpecCodec == InitCodec /\ [][NextCodec]_vars

(***************************************************************************)
(* Parsing: parseBulkFormat on documents put together from redirect lines, *)
(* note blocks, blank lines, comments, lines of no format and block openers *)
(***************************************************************************)
MaxItems == 3

\* a piece of a document: its lines, the entries the format gives them, and
\* the key of a block opener
Item(kind, lines, entries, key) ==
    [kind |-> kind, lines |-> lines, entries |-> entries, key |-> key]

ParseItems ==
    { \* a -> h:u
      Item("redirect", << <<"a", " ", "-", ">", " ", "h", ":", "u">> >>,
           <<ParsedEntry(<<"a">>, "uri", <<"h", ":", "u">>, None, None)>>, <<>>),
      \* b [p q]->  h:v , with white space around
      Item("redirect",
           << <<" ", "b", " ", "[", "p", " ", "q", "]", "-", ">", " ", " ",
                "h", ":", "v", " ", "\r">> >>,
           <<ParsedEntry(<<"b">>, "uri", <<"h", ":", "v">>,
                         <<"p", " ", "q">>, <<"p", " ", "q">>)>>, <<>>),
      \* c--- with an indented line, a blank line and a # line, closed by ---
      Item("note",
           << <<"c", "-", "-", "-">>, <<" ", "x", " ">>, <<>>, <<"#", "y">>, Dashes >>,
           <<ParsedEntry(<<"c">>, "note", <<" ", "x", " ", NL, NL, "#", "y">>,
                         None, None)>>, <<>>),
      \* d [q] --- holding a redirect line, closed by an indented ---
      Item("note",
           << <<"d", " ", "[", "q", "]", " ", "-", "-", "-">>,
              <<"a", "-", ">", "x">>, <<" ", "-", "-", "-", " ">> >>,
           <<ParsedEntry(<<"d">>, "note", <<"a", "-", ">", "x">>,
                         <<"q">>, <<"q">>)>>, <<>>),
      Item("blank", << <<" ">> >>, <<>>, <<>>),
      Item("comment", << <<"#", " ", "a", " ", "-", ">", " ", "x">> >>, <<>>, <<>>),
      \* lines of no format: words, and a --- outside any block
      Item("unrecognized", << <<" ", "H", "i", " ", "x">> >>, <<>>, <<>>),
      Item("unrecognized", << Dashes >>, <<>>, <<>>),
      \* an opener without its closer
      Item("opener", << <<"e", " ", "-", "-", "-">>, <<"H", "i">> >>, <<>>, <<"e">>) }

ParseDocs == UNION {[1..n -> ParseItems] : n \in 0..MaxItems}

\* the lines of the pieces from the k-th on
RECURSIVE DocLines(_, _)
DocLines(doc, k) ==
    IF k > Len(doc) THEN <<>> ELSE doc[k].lines \o DocLines(doc, k + 1)

InitParse ==
    /\ kv = EmptyKV
    /\ StoreIdle
    /\ GateIdle
    /\ HashIdle
    /\ CookieIdle
    /\ AdminIdle
    /\ LoopIdle
    /\ RaceIdle
    /\ cRecords = NoRecords
    /\ cDoc \in ParseDocs
    /\ cText = JoinLines(DocLines(cDoc, 1))
    /\ cParsed = NoParse
    /\ cPc = "text"

ParseText ==
    /\ cPc = "text"
    /\ cParsed' = parseBulkFormat(cText)
    /\ cPc' = "read"
    /\ UNCHANGED <<cRecords, cText, cDoc>>
    /\ UNCHANGED <<storeVars, gateVars, hashVars, cookieVars, adminVars, loopVars, raceVars>>

NextParse == ParseText

SpecParse == InitParse /\ [][NextParse]_vars

(***************************************************************************)
(* Unlock cookies: the cookie createUnlockCookie makes for one key, shown  *)
(* to isUnlocked for the same or another key                               *)
(***************************************************************************)
\* keys of which one is a prefix or a suffix of another, or differs in case
CookieKeys == {<<"a">>, <<"a", "b">>, <<"b", "a">>, <<"b">>, <<"A">>}

\* the Cookie header a client sends that holds the cookie: its name=value
\* pair, alone or after the unlock cookie of a key never unlocked
CookieHeaderOf(setCookie, crowded) ==
    (IF crowded THEN CookieName(<<"z">>) \o <<"=", "1", ";", " ">> ELSE <<>>)
        \o setCookie.name \o <<"=">> \o setCookie.value

InitCookie ==
    /\ kv = EmptyKV
    /\ StoreIdle
    /\ GateIdle
    /\ CodecIdle
    /\ HashIdle
    /\ AdminIdle
    /\ LoopIdle
    /\ RaceIdle
    /\ ck \in {[NoCheck EXCEPT !.key = k, !.other = o, !.crowded = c, !.pc = "idle"] :
                   k \in CookieKeys, o \in CookieKeys, c \in BOOLEAN}

\* a successful unlock of ck.key sets the cookie, the client keeps it
IssueCookie ==
    /\ ck.pc = "idle"
    /\ \E token \in Tokens :
           ck' = [ck EXCEPT !.token = token,
                            !.header = CookieHeaderOf(createUnlockCookie(ck.key, token),
                                                      ck.crowded),
                            !.pc = "issued"]
    /\ UNCHANGED <<storeVars, gateVars, codecVars, hashVars, adminVars, loopVars, raceVars>>

\* a request for ck.other that carries the cookie
ShowCookie ==
    /\ ck.pc = "issued"
    /\ ck' = [ck EXCEPT !.unlocked = isUnlocked(ck.header, ck.other),
                        !.pc = "shown"]
    /\ UNCHANGED <<storeVars, gateVars, codecVars, hashVars, adminVars, loopVars, raceVars>>

NextCookie ==
    \/ IssueCookie
    \/ ShowCookie

SpecCookie == InitCookie /\ [][NextCookie]_vars

(***************************************************************************)
(* Hashing: hashPassword and verifyPassword on passwords and on stored     *)
(* tokens, those hashPassword made and malformed ones                      *)
(***************************************************************************)
HashPasswords == {GoodPassword, <<"x">>, <<"p", "x">>, <<"P">>}

\* the bytes hashPassword encodes for GoodPassword
GoodBytes == Salt1 \o DeriveBits(Salt1, GoodPassword)

\* stored tokens hashPassword cannot have made: not decodable (a character
\* outside the alphabet, a length of 4n + 1), shorter than salt plus key
\* (empty, part of a salt, a salt alone, a byte missing), a byte too long
MalformedTokens ==
    { <<"!", "!", "!", "!">>,
      <<"A">>,
      [btoa(GoodBytes) EXCEPT ![5] = "*"],
      <<>>,
      btoa(Slice(Salt1, 1, 10)),
      btoa(Salt1),
      btoa(Slice(GoodBytes, 1, Len(GoodBytes) - 1)),
      btoa(GoodBytes \o <<0>>) }

InitHash ==
    /\ kv = EmptyKV
    /\ StoreIdle
    /\ GateIdle
    /\ CodecIdle
    /\ hPassword \in HashPasswords
    /\ hQuery \in HashPasswords
    /\ hToken = NoToken
    /\ hOut = NoVerdict
    /\ hPc = "idle"
    /\ CookieIdle
    /\ AdminIdle
    /\ LoopIdle
    /\ RaceIdle

\* hashPassword(hPassword), the token stored
HashPassword ==
    /\ hPc = "idle"
    /\ \E salt \in Salts :
           hToken' = [kind |-> "hashed", text |-> hashPassword(hPassword, salt)]
    /\ hPc' = "stored"
    /\ UNCHANGED <<hPassword, hQuery, hOut>>
    /\ UNCHANGED <<storeVars, gateVars, codecVars, cookieVars, adminVars, loopVars, raceVars>>

\* a store that holds a token hashPassword did not make
StoreMalformed ==
    /\ hPc = "idle"
    /\ \E text \in MalformedTokens :
           hToken' = [kind |-> "malformed", text |-> text]
    /\ hPc' = "stored"
    /\ UNCHANGED <<hPassword, hQuery, hOut>>
    /\ UNCHANGED <<storeVars, gateVars, codecVars, cookieVars, adminVars, loopVars, raceVars>>

\* verifyPassword(hQuery, the stored token)
VerifyPassword ==
    /\ hPc = "stored"
    /\ hOut' = verifyPasswordOutcome(hQuery, hToken.text)
    /\ hPc' = "verified"
    /\ UNCHANGED <<hPassword, hQuery, hToken>>
    /\ UNCHANGED <<storeVars, gateVars, codecVars, cookieVars, adminVars, loopVars, raceVars>>

NextHash ==
    \/ HashPassword
    \/ StoreMalformed
    \/ VerifyPassword

SpecHash == InitHash /\ [][NextHash]_vars

(***************************************************************************)
(* Admin requests: the identity check of handleAdmin, the paged listing,   *)
(* and handleSave step by step, its store calls awaited one by one         *)
(* (admin.ts) or issued together per phase (the later handleSave)          *)
(***************************************************************************)
\* String.prototype.toLowerCase on the letters A-Z
ToLowerCase(s) ==
    [i \in 1..Len(s) |-> IF s[i] \in Upper THEN CodeOrder[Code(s[i]) + 29] ELSE s[i]]

\* the allow-list: split on commas, trimmed, lower-cased, empty items dropped
AllowedAdmins(allowed) ==
    LET parts == SplitOn(IF allowed = None THEN <<>> ELSE allowed, ",")
    IN  SelectSeq([i \in 1..Len(parts) |-> ToLowerCase(Trim(parts[i]))],
                  LAMBDA e : Len(e) > 0)

\* isAuthenticated taking every identity for permitted
isAuthenticatedAnyIdentity(email, allowed) == email # None /\ email # <<>>

\* isAuthenticated on the identity header and env.ALLOWED_ADMIN_EMAILS
isAuthenticated(email, allowed) ==
    IF email = None \/ email = <<>> THEN FALSE
    ELSE LET allowedAdmins == AllowedAdmins(allowed)
         IN  IF Len(allowedAdmins) = 0 THEN TRUE
             ELSE \E i \in 1..Len(allowedAdmins) :
                      allowedAdmins[i] = ToLowerCase(email)

\* the pages kv.list gives for the key names it enumerates: cursor is the
\* index of the next page, list_complete holds on the last one
KVList(names, size) ==
    LET n == IF Len(names) = 0 THEN 1 ELSE (Len(names) + size - 1) \div size
    IN  [p \in 1..n |->
            [keys |-> Slice(names, (p - 1) * size + 1, Min(p * size, Len(names))),
             list_complete |-> p = n,
             cursor |-> p + 1]]

\* the for loop of listAllRecords over the keys of one page
RECURSIVE AddListed(_, _, _, _)
AddListed(store, names, i, records) ==
    IF i > Len(names) THEN records
    ELSE IF ~isSystemKey(names[i]) /\ getRecord(store, names[i]).found
    THEN AddListed(store, names, i + 1,
                   MapSet(records, names[i], getRecord(store, names[i]).record))
    ELSE AddListed(store, names, i + 1, records)

\* the do-while loop of listAllRecords that stops after the first page
ListFirstPage(store, pages, cursor, records) ==
    AddListed(store, pages[cursor].keys, 1, records)

\* the do-while loop of listAllRecords from the page the cursor names
RECURSIVE ListFrom(_, _, _, _)
ListFrom(store, pages, cursor, records) ==
    LET result == pages[cursor]
        next == AddListed(store, result.keys, 1, records)
    IN  IF result.list_complete THEN next
        ELSE ListFrom(store, pages, result.cursor, next)

\* listAllRecords against a collaborator that lists in pages
listAllRecordsPaged(store, pages) == ListFrom(store, pages, 1, NoRecords)

MaxPageSize == 2

\* a store call of handleSave
Call(op, key, record, n) == [op |-> op, key |-> key, record |-> record, n |-> n]

\* what happened in a request, in order
Event(ev, key) == [ev |-> ev, key |-> key]

KeyN == <<"n">>

\* the store: a protected redirect a, a redirect b, a note n, a value c
\* that is no JSON, and a record under a system key
AdminStore ==
    LET put(store, key, record) == KVPut(store, key, KVJson(record))
    IN  KVPut(
          put(put(put(put(EmptyKV, KeyA,
                          StoredRecord("uri", <<"h", ":", "u">>,
                                       hashPassword(GoodPassword, Salt1), 0, 0)),
                      KeyB, StoredRecord("uri", <<"h", ":", "w">>, None, 0, 0)),
                  KeyN, StoredRecord("note", <<"t">>, None, 0, 0)),
              <<"_", "_", "s">>, StoredRecord("uri", <<"h", ":", "s">>, None, 0, 0)),
          KeyC, KVRaw)

\* the identity header of the request, and env.ALLOWED_ADMIN_EMAILS
AdminEmails == {None, <<"A", "@", "x">>, <<"b", "@", "x">>}

AllowLists == {None, <<" ", "a", "@", "X", " ", ",", "c", "@", "x", ",">>}

\* the documents submitted to /admin/save
AdminDocs ==
    LET Ku == <<"a", " ", "-", ">", " ", "h", ":", "v">>
        Kp == <<"a", " ", "[", "p", "]", " ", "-", ">", " ", "h", ":", "u">>
        D1 == <<"d", " ", "-", ">", " ", "h", ":", "u">>
        D2 == <<"d", " ", "-", ">", " ", "h", ":", "v">>
        B  == <<"b", " ", "-", ">", " ", "h", ":", "u">>
        Eq == <<"e", " ", "[", "q", "]", " ", "-", ">", " ", "h", ":", "u">>
        Bad == <<"a", " ", "-", ">", " ", "x">>
    IN  { <<>>, <<Ku>>, <<Kp, Ku>>, <<D1, D2>>, <<B, Eq>>, <<Bad>> }

AdminRequests ==
    {[NoBulk EXCEPT !.pc = "auth", !.email = e, !.allowed = a, !.route = r,
                    !.content = JoinLines(d), !.parallel = p, !.fresh = f,
                    !.size = s] :
        e \in AdminEmails, a \in AllowLists, r \in {"save"}, d \in AdminDocs,
        p \in BOOLEAN, f \in {{}, {KeyA}}, s \in 1..MaxPageSize}
    \cup
    {[NoBulk EXCEPT !.pc = "auth", !.email = e, !.allowed = a,
                    !.route = "dashboard", !.parallel = p, !.size = s] :
        e \in AdminEmails, a \in AllowLists, p \in BOOLEAN, s \in 1..MaxPageSize}

InitAdmin ==
    /\ kv = AdminStore
    /\ now = 1
    /\ ticks = 0
    /\ saves = 0
    /\ last = NoSave
    /\ GateIdle
    /\ CodecIdle
    /\ HashIdle
    /\ CookieIdle
    /\ bulk \in AdminRequests
    /\ LoopIdle
    /\ RaceIdle

Answered(b, status) == [b EXCEPT !.pc = "done", !.status = status]

\* handleAdmin up to the first store call: the identity check, the route,
\* and for a save the parsing and validation of the content
AdminAuth ==
    /\ bulk.pc = "auth"
    /\ bulk' =
          IF ~isAuthenticated(bulk.email, bulk.allowed) THEN Answered(bulk, 403)
          ELSE IF bulk.route = "dashboard" \/ bulk.content = <<>>
          THEN [bulk EXCEPT !.pc = "list"]
          ELSE Once(parseBulkFormat(bulk.content),
                    LAMBDA parsed :
                        IF parsed.errors # <<>> THEN Answered(bulk, 400)
                        ELSE IF ValidationErrors(parsed.entries) # <<>>
                        THEN Answered(bulk, 400)
                        ELSE [bulk EXCEPT !.pc = "list",
                                          !.entries = parsed.entries])
    /\ UNCHANGED <<storeVars, gateVars, codecVars, hashVars, cookieVars, loopVars, raceVars>>

\* the deletes of handleSave, in the order of existingRecords.keys()
DeleteCalls(existingRecords, entries) ==
    LET keysToDelete == KeysToDelete(existingRecords, NewKeys(entries))
    IN  [i \in 1..Len(keysToDelete) |-> Call("delete", keysToDelete[i], KVRaw.record, i)]

\* redirectsOnly: the records of type uri
RedirectsOnly(records) ==
    [k \in {x \in DOMAIN records : records[x].type = "uri"} |-> records[k]]

\* the text in the editor of the dashboard: all records (admin.ts), or the
\* redirects only (the later handleAdmin)
DashboardContent(records, later) ==
    serializeBulkFormat(IF later THEN RedirectsOnly(records) ELSE records)

\* listAllRecords; the enumeration may leave out keys written just before
AdminList ==
    /\ bulk.pc = "list"
    /\ \E omitted \in SUBSET (bulk.fresh \cap DOMAIN kv) :
       \E pages \in {KVList(SortKeys((DOMAIN kv) \ omitted), bulk.size)} :
       \E existing \in {listAllRecordsPaged(kv, pages)} :
       \E listed \in {[bulk EXCEPT !.pages = pages, !.existing = existing,
                                   !.events = Append(@, Event("listed", <<>>))]} :
          bulk' = IF bulk.route = "dashboard"
                  THEN [Answered(listed, 200) EXCEPT
                           !.shown = DashboardContent(existing, bulk.parallel)]
                  ELSE IF bulk.content = <<>> THEN Answered(listed, 400)
                  ELSE [listed EXCEPT !.pc = "delete",
                                      !.queue = DeleteCalls(existing, bulk.entries)]
    /\ UNCHANGED <<storeVars, gateVars, codecVars, hashVars, cookieVars, loopVars, raceVars>>

IssueEvents(calls) ==
    [i \in 1..Len(calls) |->
        Event(IF calls[i].op = "delete" THEN "delete issued" ELSE "put issued",
              calls[i].key)]

\* the next store call is made (awaited one by one), or all calls of the
\* phase are made at once (Promise.all over the mapped calls)
AdminIssue ==
    /\ bulk.pc \in {"delete", "save"}
    /\ bulk.queue # <<>>
    /\ bulk' =
          IF bulk.parallel
          THEN [bulk EXCEPT !.queue = <<>>,
                            !.pending = {bulk.queue[i] : i \in 1..Len(bulk.queue)},
                            !.events = @ \o IssueEvents(bulk.queue)]
          ELSE [bulk EXCEPT !.queue = Tail(@),
                            !.pending = {Head(bulk.queue)},
                            !.events = @ \o IssueEvents(<<Head(bulk.queue)>>)]
    /\ bulk.parallel \/ bulk.pending = {}
    /\ UNCHANGED <<storeVars, gateVars, codecVars, hashVars, cookieVars, loopVars, raceVars>>

\* a store call completes
AdminComplete ==
    /\ \E call \in bulk.pending :
          /\ kv' = IF call.op = "delete" THEN deleteRecord(kv, call.key)
                   ELSE saveRecord(kv, call.key, call.record, now)
          /\ bulk' = [bulk EXCEPT
                         !.pending = @ \ {call},
                         !.events = Append(@,
                             Event(IF call.op = "delete" THEN "delete done"
                                   ELSE "put done", call.key))]
    /\ UNCHANGED <<now, ticks, saves, last>>
    /\ UNCHANGED <<gateVars, codecVars, hashVars, cookieVars, loopVars, raceVars>>

\* the store after the failure, were the operation rolled back
StoreRolledBack(store, before) == before

\* the store after a store call of the operation failed: nothing is undone
StoreAfterFailure(store, before) == store

\* a store call fails: handleSave throws, fetch answers 500; the calls made
\* before stay in flight
AdminFail ==
    /\ bulk.pc \in {"delete", "save"}
    /\ \E call \in bulk.pending :
          bulk' = [Answered(bulk, 500) EXCEPT
                      !.queue = <<>>,
                      !.pending = @ \ {call},
                      !.events = Append(@, Event("failed", call.key))]
    /\ kv' = StoreAfterFailure(kv, AdminStore)
    /\ UNCHANGED <<now, ticks, saves, last>>
    /\ UNCHANGED <<gateVars, codecVars, hashVars, cookieVars, loopVars, raceVars>>

\* the calls of a phase settled as soon as they are made
PhaseIssued(b) == b.queue = <<>>

\* every call of the phase has been made and has completed
PhaseSettled(b) == b.queue = <<>> /\ b.pending = {}

\* the entries that need no hashing, in document order
Unhashed(entries) ==
    SelectSeq([i \in 1..Len(entries) |-> i],
              LAMBDA i : entries[i].rawPassword = None)

\* { key, record } as pushed to recordsToSave, or saved, for entry i
Prepared(b, i, salt) ==
    Call("put", b.entries[i].key, EntryRecord(b.entries[i], b.existing, salt), i)

\* the deletes are over: the entries are saved one by one in document
\* order, each hashed before its put, or all entries are prepared first
AdminPrepare ==
    /\ bulk.pc = "delete"
    /\ PhaseSettled(bulk)
    /\ IF bulk.parallel
       THEN \E plain \in {Unhashed(bulk.entries)} :
               bulk' = [bulk EXCEPT
                           !.pc = "prepare",
                           !.records = [j \in 1..Len(plain) |->
                                           Prepared(bulk, plain[j], Salt1)],
                           !.hashing = {i \in 1..Len(bulk.entries) :
                                           bulk.entries[i].rawPassword # None}]
       ELSE \E salts \in SaltChoices(bulk.entries) :
               bulk' = [bulk EXCEPT
                           !.pc = "save",
                           !.queue = [i \in 1..Len(bulk.entries) |->
                                         Prepared(bulk, i, salts[i])]]
    /\ UNCHANGED <<storeVars, gateVars, codecVars, hashVars, cookieVars, loopVars, raceVars>>

\* a hashPassword of the preparation resolves
AdminHashed ==
    /\ bulk.pc = "prepare"
    /\ \E i \in bulk.hashing, salt \in Salts :
          bulk' = [bulk EXCEPT !.hashing = @ \ {i},
                               !.records = Append(@, Prepared(bulk, i, salt))]
    /\ UNCHANGED <<storeVars, gateVars, codecVars, hashVars, cookieVars, loopVars, raceVars>>

\* the preparation is over: the puts of recordsToSave come next
AdminSave ==
    /\ bulk.pc = "prepare"
    /\ bulk.hashing = {}
    /\ bulk' = [bulk EXCEPT !.pc = "save", !.queue = bulk.records]
    /\ UNCHANGED <<storeVars, gateVars, codecVars, hashVars, cookieVars, loopVars, raceVars>>

\* the puts are over: 200
AdminSaved ==
    /\ bulk.pc = "save"
    /\ PhaseSettled(bulk)
    /\ bulk' = Answered(bulk, 200)
    /\ UNCHANGED <<storeVars, gateVars, codecVars, hashVars, cookieVars, loopVars, raceVars>>

\* the text the dashboard shows is submitted to /admin/save, unedited
AdminResubmit ==
    /\ bulk.pc = "done"
    /\ bulk.route = "dashboard"
    /\ bulk.status = 200
    /\ bulk' = [NoBulk EXCEPT !.pc = "auth", !.email = bulk.email,
                              !.allowed = bulk.allowed, !.route = "save",
                              !.content = bulk.shown, !.parallel = bulk.parallel,
                              !.size = bulk.size, !.shown = bulk.shown,
                              !.resubmitted = TRUE]
    /\ UNCHANGED <<storeVars, gateVars, codecVars, hashVars, cookieVars, loopVars, raceVars>>

NextAdmin ==
    \/ AdminAuth
    \/ AdminResubmit
    \/ AdminList
    \/ AdminIssue
    \/ AdminComplete
    \/ AdminFail
    \/ AdminPrepare
    \/ AdminHashed
    \/ AdminSave
    \/ AdminSaved

SpecAdmin == InitAdmin /\ [][NextAdmin]_vars

(***************************************************************************)
(* parseBulkFormat iteration by iteration: the outer loop over the lines   *)
(* and the loop that reads the content of a note block                     *)
(***************************************************************************)
InitLoop ==
    /\ kv = EmptyKV
    /\ StoreIdle
    /\ GateIdle
    /\ HashIdle
    /\ CookieIdle
    /\ AdminIdle
    /\ cRecords = NoRecords
    /\ cDoc \in ParseDocs
    /\ cText = JoinLines(DocLines(cDoc, 1))
    /\ cParsed = NoParse
    /\ cPc = "text"
    /\ loop = [NoLoop EXCEPT !.pc = "outer", !.lines = SplitLines(cText)]
    /\ RaceIdle

\* the line at the index has been read by the loop
Consumed(l) == [l EXCEPT !.consumed = Append(@, l.i)]

\* the index after the closing line, left where it is
AfterCloserStaying(i) == i

\* i++ that skips the closing line of a note block
AfterCloser(i) == i + 1

\* one iteration of the outer loop: a blank line or a comment, the opening
\* line of a note block, a redirect, or a line of no format
LoopLine ==
    /\ loop.pc = "outer"
    /\ loop.i <= Len(loop.lines)
    /\ \E line \in {Trim(loop.lines[loop.i])} :
       \E nm \in {NoteMatch(line)}, rm \in {RedirectMatch(line)} :
          loop' =
             IF line = <<>> \/ Head(line) = "#"
             THEN [Consumed(loop) EXCEPT !.i = @ + 1]
             ELSE IF nm.ok
             THEN [Consumed(loop) EXCEPT !.pc = "content", !.i = @ + 1,
                                         !.key = nm.key, !.password = nm.password,
                                         !.contentLines = <<>>]
             ELSE IF rm.ok
             THEN [Consumed(loop) EXCEPT
                      !.i = @ + 1,
                      !.entries = Append(@,
                          ParsedEntry(rm.key, "uri", Trim(rm.url),
                                      RawPasswordOf(rm.password), rm.password))]
             ELSE [Consumed(loop) EXCEPT
                      !.i = @ + 1,
                      !.errors = Append(@, UnrecognizedError(loop.i, line))]
    /\ UNCHANGED <<storeVars, gateVars, codecVars, hashVars, cookieVars, adminVars, raceVars>>

\* one iteration of the loop that reads the content of a note block
LoopContent ==
    /\ loop.pc = "content"
    /\ loop.i <= Len(loop.lines)
    /\ Trim(loop.lines[loop.i]) # Dashes
    /\ loop' = [Consumed(loop) EXCEPT !.i = @ + 1,
                                      !.contentLines = Append(@, loop.lines[loop.i])]
    /\ UNCHANGED <<storeVars, gateVars, codecVars, hashVars, cookieVars, adminVars, raceVars>>

\* the content loop is over: the block is unclosed, or its closing line is
\* skipped and the note entry pushed
LoopClose ==
    /\ loop.pc = "content"
    /\ IF loop.i > Len(loop.lines) THEN TRUE
       ELSE Trim(loop.lines[loop.i]) = Dashes
    /\ loop' =
          IF loop.i > Len(loop.lines)
          THEN [loop EXCEPT
                   !.pc = "outer",
                   !.errors = Append(@,
                       UnclosedError(loop.key,
                                     (loop.i - 1) - Len(loop.contentLines)))]
          ELSE [Consumed(loop) EXCEPT
                   !.pc = "outer",
                   !.i = AfterCloser(@),
                   !.entries = Append(@,
                       ParsedEntry(loop.key, "note", JoinLines(loop.contentLines),
                                   RawPasswordOf(loop.password), loop.password))]
    /\ UNCHANGED <<storeVars, gateVars, codecVars, hashVars, cookieVars, adminVars, raceVars>>

\* the outer loop is over: return { entries, errors }
LoopReturn ==
    /\ loop.pc = "outer"
    /\ loop.i > Len(loop.lines)
    /\ loop' = [loop EXCEPT !.pc = "returned"]
    /\ cParsed' = [entries |-> loop.entries, errors |-> loop.errors]
    /\ cPc' = "read"
    /\ UNCHANGED <<cRecords, cText, cDoc>>
    /\ UNCHANGED <<storeVars, gateVars, hashVars, cookieVars, adminVars, raceVars>>

NextLoop ==
    \/ LoopLine
    \/ LoopContent
    \/ LoopClose
    \/ LoopReturn

SpecLoop == InitLoop /\ [][NextLoop]_vars

(***************************************************************************)
(* The rate limit functions on several pairs, with times close to the end  *)
(* of a window                                                             *)
(***************************************************************************)
\* clients and keys; the keys match [a-zA-Z0-9_-]+ as fetch requires
LimitIps == {<<"1">>, <<"1", "2">>}

LimitKeys == {<<"a">>, <<"2", "a">>}

LimitPairs == LimitIps \X LimitKeys

MaxLimitSteps == 2

MaxLimitTicks == 2

\* the maps left by failures at time 0: per pair no entry, or one that is
\* at the limit
LimitMaps ==
    {[k \in {RateLimitKey(p[1], p[2]) : p \in S} |->
         RateEntry(MAX_UNLOCK_ATTEMPTS, UNLOCK_RATE_LIMIT_WINDOW_MS)] :
        S \in SUBSET LimitPairs}

InitLimit ==
    /\ kv = EmptyKV
    /\ StoreIdle
    /\ unlockRateLimitMap \in LimitMaps
    /\ reqs = [r \in Slots |-> IdleRequest]
    /\ resp = NoResponse
    /\ issued = [t \in {} |-> [key |-> <<>>, at |-> 0]]
    /\ hist = [k \in {} |-> [since |-> 0, fails |-> 0, start |-> 0]]
    /\ requests = 0
    /\ prev = NoResponse
    /\ CodecIdle
    /\ HashIdle
    /\ CookieIdle
    /\ AdminIdle
    /\ LoopIdle
    /\ RaceIdle

\* a call of one of the three functions; resp keeps what it was called for
\* and, for a check, what it answered
LimitCall(name, ip, key, answer) ==
    /\ requests < MaxLimitSteps
    /\ requests' = requests + 1
    /\ resp' = Answer(name, ip, key, <<>>, None, "clear", "none", answer)
    /\ UNCHANGED <<reqs, issued, hist, prev>>
    /\ UNCHANGED storeVars
    /\ UNCHANGED pureVars

Allowed == Response(200, "allowed", <<>>, FALSE, FALSE, NoCookie)

LimitCheck ==
    \E p \in LimitPairs :
    \E check \in {checkUnlockRateLimit(unlockRateLimitMap, p[1], p[2], now)} :
        /\ unlockRateLimitMap' = check.map
        /\ LimitCall("check", p[1], p[2],
                     IF check.allowed THEN Allowed
                     ELSE TooManyResponse(check.retryAfter))

LimitRecord ==
    \E p \in LimitPairs :
        /\ unlockRateLimitMap' =
               recordUnlockAttempt(unlockRateLimitMap, p[1], p[2], now)
        /\ LimitCall("record", p[1], p[2], Allowed)

LimitClear ==
    \E p \in LimitPairs :
        /\ unlockRateLimitMap' = clearUnlockRateLimit(unlockRateLimitMap, p[1], p[2])
        /\ LimitCall("clear", p[1], p[2], Allowed)

\* the amounts of time that pass, in milliseconds
LimitTickSteps ==
    {1, 999, UNLOCK_RATE_LIMIT_WINDOW_MS - 1000, UNLOCK_RATE_LIMIT_WINDOW_MS}

LimitClock ==
    /\ ticks < MaxLimitTicks
    /\ \E d \in LimitTickSteps : now' = now + d
    /\ ticks' = ticks + 1
    /\ UNCHANGED <<kv, saves, last>>
    /\ UNCHANGED gateVars
    /\ UNCHANGED pureVars

NextLimit ==
    \/ LimitCheck
    \/ LimitRecord
    \/ LimitClear
    \/ LimitClock

SpecLimit == InitLimit /\ [][NextLimit]_vars

(***************************************************************************)
(* Two admin requests at once: bulk saves and quick-adds, interleaved at   *)
(* their awaits                                                            *)
(***************************************************************************)
RaceSlots == {1, 2}

\* the store the two requests start from: one redirect a
RaceStore ==
    KVPut(EmptyKV, KeyA,
          KVJson(StoredRecord("uri", <<"h", ":", "u">>, None, 0, 0)))

\* the documents submitted to /admin/save by the two sessions
RaceDocs ==
    LET Av == <<"a", " ", "-", ">", " ", "h", ":", "v">>
        Bu == <<"b", " ", "-", ">", " ", "h", ":", "u">>
        Bv == <<"b", " ", "-", ">", " ", "h", ":", "v">>
        Bad == <<"a", " ", "-", ">", " ", "x">>
    IN  { <<Av>>, <<Bu>>, <<Av, Bv>>, <<Bad>> }

\* the bodies posted to /admin/quick-add
RaceQuickKeys == {KeyA, KeyB, <<"a", " ">>}

RaceQuickUrls == {<<"h", ":", "w">>, <<"x">>}

RaceRequests ==
    {[NoRacer EXCEPT !.kind = "save", !.pc = "list", !.content = JoinLines(d)] :
        d \in RaceDocs}
    \cup
    {[NoRacer EXCEPT !.kind = "quick", !.pc = "check", !.key = k, !.url = u] :
        k \in RaceQuickKeys, u \in RaceQuickUrls}

InitRace ==
    /\ kv = RaceStore
    /\ now = 1
    /\ ticks = 0
    /\ saves = 0
    /\ last = NoSave
    /\ GateIdle
    /\ CodecIdle
    /\ HashIdle
    /\ CookieIdle
    /\ AdminIdle
    /\ LoopIdle
    /\ race \in [RaceSlots -> RaceRequests]

RaceAnswered(q, status) == [q EXCEPT !.pc = "done", !.status = status]

\* the deletes and the puts of a save, in the order they are awaited
RaceCalls(entries, existingRecords) ==
    DeleteCalls(existingRecords, entries)
        \o [i \in 1..Len(entries) |->
               Call("put", entries[i].key,
                    EntryRecord(entries[i], existingRecords, Salt1), i)]

\* handleSave up to the end of `await listAllRecords`: the content is
\* parsed and validated, the existing records are read, and from them the
\* keys to delete and the records to save follow
RaceList(r) ==
    /\ race[r].kind = "save"
    /\ race[r].pc = "list"
    /\ race' = [race EXCEPT ![r] =
          IF race[r].content = <<>> THEN RaceAnswered(@, 400)
          ELSE Once(parseBulkFormat(race[r].content),
                    LAMBDA parsed :
                        IF parsed.errors # <<>>
                        THEN RaceAnswered(race[r], 400)
                        ELSE IF ValidationErrors(parsed.entries) # <<>>
                        THEN RaceAnswered(race[r], 400)
                        ELSE [race[r] EXCEPT
                                 !.pc = "calls",
                                 !.queue = RaceCalls(parsed.entries,
                                                     listAllRecords(kv))])]
    /\ UNCHANGED <<storeVars, gateVars, codecVars, hashVars, cookieVars, adminVars, loopVars>>

\* the next deleteRecord or saveRecord of a save is applied to the store
RaceCall(r) ==
    /\ race[r].kind = "save"
    /\ race[r].pc = "calls"
    /\ race[r].queue # <<>>
    /\ \E call \in {Head(race[r].queue)} :
          kv' = IF call.op = "delete" THEN deleteRecord(kv, call.key)
                ELSE saveRecord(kv, call.key, call.record, now)
    /\ race' = [race EXCEPT ![r].queue = Tail(@)]
    /\ UNCHANGED <<now, ticks, saves, last>>
    /\ UNCHANGED <<gateVars, codecVars, hashVars, cookieVars, adminVars, loopVars>>

\* every call of the save was awaited: the save answers 200
RaceSaved(r) ==
    /\ race[r].kind = "save"
    /\ race[r].pc = "calls"
    /\ race[r].queue = <<>>
    /\ race' = [race EXCEPT ![r] = RaceAnswered(@, 200)]
    /\ UNCHANGED <<storeVars, gateVars, codecVars, hashVars, cookieVars, adminVars, loopVars>>

\* handleQuickAdd up to the end of `await getRecord`: the body is
\* validated, and a key that holds a record is answered 409
QuickCheck(r) ==
    /\ race[r].kind = "quick"
    /\ race[r].pc = "check"
    /\ race' = [race EXCEPT ![r] =
          IF @.key = <<>> \/ @.url = <<>> THEN RaceAnswered(@, 400)
          ELSE IF ~isValidKey(@.key) THEN RaceAnswered(@, 400)
          ELSE IF ~isValidUrl(@.url) THEN RaceAnswered(@, 400)
          ELSE IF getRecord(kv, @.key).found THEN RaceAnswered(@, 409)
          ELSE [@ EXCEPT !.pc = "put"]]
    /\ UNCHANGED <<storeVars, gateVars, codecVars, hashVars, cookieVars, adminVars, loopVars>>

\* the saveRecord of handleQuickAdd is applied and the request answers
\* success; overwrote: the key held a record when the put was applied
QuickPut(r) ==
    /\ race[r].kind = "quick"
    /\ race[r].pc = "put"
    /\ kv' = saveRecord(kv, race[r].key,
                        StoredRecord("uri", race[r].url, None, NoTime, NoTime),
                        now)
    /\ race' = [race EXCEPT ![r] =
          [RaceAnswered(@, 200) EXCEPT
              !.overwrote = getRecord(kv, race[r].key).found]]
    /\ UNCHANGED <<now, ticks, saves, last>>
    /\ UNCHANGED <<gateVars, codecVars, hashVars, cookieVars, adminVars, loopVars>>

RaceListStep == \E r \in RaceSlots : RaceList(r)

RaceCallStep == \E r \in RaceSlots : RaceCall(r)

RaceSavedStep == \E r \in RaceSlots : RaceSaved(r)

QuickCheckStep == \E r \in RaceSlots : QuickCheck(r)

QuickPutStep == \E r \in RaceSlots : QuickPut(r)

NextRace ==
    \/ RaceListStep
    \/ RaceCallStep
    \/ RaceSavedStep
    \/ QuickCheckStep
    \/ QuickPutStep

SpecRace == InitRace /\ [][NextRace]_vars

(***************************************************************************)
(* Properties                                                              *)
(***************************************************************************)
\* the passwordHash stored for a key, None when there is none
StoredHash(store, key) == getRecord(store, key).record.passwordHash

\* the entries of the last submission
LastEntries == parseBulkFormat(last.text).entries

\* entry i is the last entry of the submission for its key
LastForKey(entries, i) ==
    \A j \in (i + 1)..Len(entries) : entries[j].key # entries[i].key

\* the pairs of the rate limiter: the client and each key
GatePairs == {<<GateIp, key>> : key \in GateKeys}

\* C1: a GET of a protected key that carries no unlock credential for the
\* key, one that no unlock of the key issued, or an expired one, is answered
\* with the password prompt and never with the content of the record.
C1_PromptWithoutCredential ==
    (/\ resp.handler = "get"
     /\ StoredHash(kv, resp.key) # None
     /\ resp.credential \in {"none", "never issued", "expired"})
        => /\ resp.response.body = "prompt"
           /\ resp.response.content = <<>>

\* C2: a saved entry whose bracket holds the placeholder, for a key that had
\* a passwordHash, carries no rawPassword and leaves the passwordHash of the
\* key as it was before the save.
C2_PlaceholderKeepsHash ==
    last.status = 200 =>
        \A i \in 1..Len(LastEntries) :
            (/\ LastEntries[i].bracket = Placeholder
             /\ LastForKey(LastEntries, i)
             /\ StoredHash(last.pre, LastEntries[i].key) # None)
                => /\ LastEntries[i].rawPassword = None
                   /\ StoredHash(kv, LastEntries[i].key)
                          = StoredHash(last.pre, LastEntries[i].key)

\* C3: a saved entry written with no bracket, for a key that had a
\* passwordHash, is stored with no passwordHash.
C3_NoBracketRemovesHash ==
    last.status = 200 =>
        \A i \in 1..Len(LastEntries) :
            (/\ LastEntries[i].bracket = None
             /\ LastForKey(LastEntries, i)
             /\ StoredHash(last.pre, LastEntries[i].key) # None)
                => StoredHash(kv, LastEntries[i].key) = None

\* C4: an unlock request that starts when its pair has ten counted failures
\* in the running window is answered 429 with a Retry-After, whatever
\* password it submits, and its password is not verified.
C4_LimitedIsRejected ==
    (resp.handler = "unlock" /\ resp.gate = "limited")
        => /\ resp.response.status = 429
           /\ resp.response.retryAfter # NoRetryAfter
           /\ ~resp.response.verified
           /\ resp.response.setCookie = NoCookie

\* C4 witness: a limited pair submits the right password and gets the 429
C4_Witness ==
    /\ resp.handler = "unlock"
    /\ resp.gate = "limited"
    /\ resp.password = GoodPassword
    /\ resp.response.status = 429

\* C5: the counter of a pair never counts a failure from before the last
\* successful verification: it is absent while no failure has followed the
\* success, never above the number of failures since, and the pair passes
\* the check while at most MAX_UNLOCK_ATTEMPTS - 1 failures have followed.
C5_SuccessResets ==
    \A pair \in GatePairs :
        LET k == RateLimitKey(pair[1], pair[2])
        IN  /\ k \in DOMAIN unlockRateLimitMap
                => /\ k \in DOMAIN hist
                   /\ unlockRateLimitMap[k].attempts <= hist[k].since
            /\ (k \notin DOMAIN hist \/ hist[k].since <= MAX_UNLOCK_ATTEMPTS - 1)
                => checkUnlockRateLimit(unlockRateLimitMap, pair[1], pair[2],
                                        now).allowed

\* C5 witness: a request that started on a pair with counted failures has
\* its password verified, and the entry of the pair is gone
C5_Witness ==
    /\ resp.handler = "unlock"
    /\ resp.response.body = "unlocked"
    /\ resp.gate = "counting"
    /\ RateLimitKey(resp.ip, resp.key) \notin DOMAIN unlockRateLimitMap
    /\ RateLimitKey(resp.ip, resp.key) \notin DOMAIN hist

\* C6: a limited pair is rejected until the window that its first counted
\* failure started is over; from then on the pair is clear: the check allows
\* it, and a failure starts a new window with the counter at 1 (the map
\* holds, for every pair, the failures counted in its window and the end of
\* that window).
C6_LimitedUntilWindowExpires ==
    /\ (resp.handler = "unlock" /\ resp.gate = "limited")
           => resp.response.status = 429
    /\ (resp.handler = "unlock" /\ resp.gate = "expired")
           => resp.response.status # 429
    /\ \A pair \in GatePairs :
           LET k == RateLimitKey(pair[1], pair[2])
               g == GateState(k, now)
               check == checkUnlockRateLimit(unlockRateLimitMap, pair[1],
                                             pair[2], now)
           IN  /\ g = "limited" => ~check.allowed
               /\ g \in {"clear", "expired"} => check.allowed
               /\ g \in {"counting", "limited"} => k \in DOMAIN unlockRateLimitMap
               /\ k \in DOMAIN unlockRateLimitMap
                      => /\ k \in DOMAIN hist
                         /\ unlockRateLimitMap[k] =
                                RateEntry(hist[k].fails,
                                          hist[k].start + UNLOCK_RATE_LIMIT_WINDOW_MS)

\* C6 witness: a pair that was limited fails again after its window expired,
\* and its counter is 1
C6_Witness ==
    /\ resp.handler = "unlock"
    /\ resp.gate = "expired"
    /\ resp.response.status = 401
    /\ RateLimitKey(resp.ip, resp.key) \in DOMAIN unlockRateLimitMap
    /\ unlockRateLimitMap[RateLimitKey(resp.ip, resp.key)].attempts = 1
    /\ hist[RateLimitKey(resp.ip, resp.key)].since > MAX_UNLOCK_ATTEMPTS

\* the submission has an entry that validation refuses: an illegal or too
\* long key, or a uri entry whose target is no URL
HasInvalidEntry(entries) ==
    \E i \in 1..Len(entries) :
        \/ ~isValidKey(entries[i].key)
        \/ entries[i].record.type = "uri" /\ ~isValidUrl(entries[i].record.content)

\* C7: a submission with a parse error or a validation error makes handleSave
\* issue no put and no delete, and the store stays as it was.
C7_RejectedSaveChangesNothing ==
    (/\ last.status # 0
     /\ \/ parseBulkFormat(last.text).errors # <<>>
        \/ HasInvalidEntry(LastEntries))
        => /\ last.status = 400
           /\ last.ops = <<>>
           /\ kv = last.pre

\* C7 witness: a store that holds records is given a submission whose uri
\* target is no URL
C7_Witness ==
    /\ last.reason = "validation errors"
    /\ HasInvalidEntry(LastEntries)
    /\ \A i \in 1..Len(LastEntries) : isValidKey(LastEntries[i].key)
    /\ last.pre # EmptyKV
    /\ kv = last.pre

\* C8: after a successful save the non-system keys of the store are exactly
\* the keys of the submission.
C8_StoreEqualsSubmission ==
    last.status = 200 =>
        {k \in DOMAIN kv : ~isSystemKey(k)} = NewKeys(LastEntries)

\* C9: handleSave issues no put and no delete on a system key.
C9_NoSystemKeyWritten ==
    \A i \in 1..Len(last.ops) : ~isSystemKey(last.ops[i].key)

\* C10: parsing the serialized record map gives no errors and one entry per
\* record, with its key, type and content, the placeholder in the bracket
\* exactly for the records with a passwordHash, and no rawPassword.
C10_RoundTrip ==
    cPc = "parsed" =>
        /\ cParsed.errors = <<>>
        /\ Len(cParsed.entries) = Cardinality(DOMAIN cRecords)
        /\ \A k \in DOMAIN cRecords :
               \E i \in 1..Len(cParsed.entries) :
                   /\ cParsed.entries[i].key = k
                   /\ cParsed.entries[i].record.type = cRecords[k].type
                   /\ cParsed.entries[i].record.content = cRecords[k].content
                   /\ cParsed.entries[i].bracket = Placeholder
                          <=> cRecords[k].passwordHash # None
        /\ \A i \in 1..Len(cParsed.entries) :
               cParsed.entries[i].rawPassword = None

\* the text the dashboard shows for a store
DashboardText(store) == serializeBulkFormat(listAllRecords(store))

\* C11: a save of the text serialized from the store, unedited, succeeds,
\* and the text serialized from the store afterwards equals the submitted
\* text.
C11_SaveOfOwnOutputIsIdempotent ==
    (last.status # 0 /\ last.text = DashboardText(last.pre))
        => /\ last.status = 200
           /\ DashboardText(kv) = last.text

\* C11 witness: the store of an earlier save holds a protected redirect and a
\* protected note, and its serialized text has been saved again
C11_Witness ==
    /\ last.status = 200
    /\ last.text = DashboardText(last.pre)
    /\ DashboardText(kv) = last.text
    /\ {KeyA, KeyB} \subseteq DOMAIN last.pre
    /\ StoredHash(last.pre, KeyA) # None
    /\ getRecord(last.pre, KeyB).record.type = "note"

\* C12: a token hashPassword made for P verifies with P and with no other
\* password (the derivation being injective in salt and password).
C12_VerifyAcceptsExactlyThePassword ==
    (hPc = "verified" /\ hToken.kind = "hashed")
        => /\ ~hOut.raised
           /\ hOut.value = (hQuery = hPassword)

\* C12 witness: the token of a password is verified with a password that
\* extends it, and is refused
C12_Witness ==
    /\ hPc = "verified"
    /\ hToken.kind = "hashed"
    /\ hToken.text = hashPassword(GoodPassword, Salt2)
    /\ hQuery = <<"p", "x">>
    /\ hOut = [raised |-> FALSE, value |-> FALSE]

\* C13: verifyPassword on a malformed stored token raises nothing and
\* returns false, whatever the password.
C13_MalformedTokenIsRefused ==
    (hPc = "verified" /\ hToken.kind = "malformed")
        => /\ ~hOut.raised
           /\ hOut.value = FALSE

\* C13 witness: a token that atob cannot decode has been verified
C13_Witness ==
    /\ hPc = "verified"
    /\ hToken.kind = "malformed"
    /\ ~atob(hToken.text).ok
    /\ hOut = [raised |-> FALSE, value |-> FALSE]

\* the 1-based number of the first line of the k-th piece
RECURSIVE FirstLine(_, _)
FirstLine(doc, k) ==
    IF k = 1 THEN 1 ELSE FirstLine(doc, k - 1) + Len(doc[k - 1].lines)

\* the entries of the first n pieces, in document order
RECURSIVE EntriesUpTo(_, _)
EntriesUpTo(doc, n) ==
    IF n = 0 THEN <<>> ELSE EntriesUpTo(doc, n - 1) \o doc[n].entries

\* the pieces of a kind
Pieces(doc, kind) == {k \in 1..Len(doc) : doc[k].kind = kind}

\* C14: a document of redirect lines and complete note blocks (and blank
\* lines and comments) with exactly one line of no format, outside the note
\* blocks, gives exactly one error, which names the 1-based number of that
\* line, and the entries of all the other pieces in document order.
C14_OneBadLineOneError ==
    (/\ cPc = "read"
     /\ Pieces(cDoc, "opener") = {}
     /\ Cardinality(Pieces(cDoc, "unrecognized")) = 1)
        => LET k == CHOOSE k \in Pieces(cDoc, "unrecognized") : TRUE
           IN  /\ Len(cParsed.errors) = 1
               /\ cParsed.errors[1].kind = "unrecognized"
               /\ cParsed.errors[1].line = FirstLine(cDoc, k)
               /\ cParsed.entries = EntriesUpTo(cDoc, Len(cDoc))

\* C14 witness: the line of no format stands between a note block and a
\* redirect line
C14_Witness ==
    /\ cPc = "read"
    /\ Len(cDoc) = 3
    /\ cDoc[1].kind = "note"
    /\ cDoc[2].kind = "unrecognized"
    /\ cDoc[3].kind = "redirect"
    /\ Len(cParsed.errors) = 1
    /\ cParsed.errors[1].line = Len(cDoc[1].lines) + 1
    /\ Len(cParsed.entries) = 2

\* the document has a block opener, outside the complete blocks, that no
\* later line closes: the first opener, with no line after it whose
\* trimmed form is ---
Unterminated(doc, k) ==
    /\ k \in Pieces(doc, "opener")
    /\ \A m \in Pieces(doc, "opener") : k <= m
    /\ \A m \in (k + 1)..Len(doc) :
           \A i \in 1..Len(doc[m].lines) : Trim(doc[m].lines[i]) # Dashes

\* the errors about blocks without a closer
UnclosedErrors(errors) == SelectSeq(errors, LAMBDA e : e.kind = "unclosed")

\* C15: a block whose opener no later line closes gives no entry and
\* exactly one error, which names the key of the block and the 1-based
\* number of the opening line; the lines after the opener give neither
\* entries nor errors.
C15_UnclosedBlockOneError ==
    \A k \in 1..Len(cDoc) :
        (cPc = "read" /\ Unterminated(cDoc, k))
            => /\ UnclosedErrors(cParsed.errors) =
                      <<[kind |-> "unclosed", key |-> cDoc[k].key,
                         line |-> FirstLine(cDoc, k)]>>
               /\ cParsed.errors[Len(cParsed.errors)].kind = "unclosed"
               /\ Len(cParsed.errors) =
                      1 + Cardinality({m \in Pieces(cDoc, "unrecognized") : m < k})
               /\ cParsed.entries = EntriesUpTo(cDoc, k - 1)
               /\ \A i \in 1..Len(cParsed.entries) :
                      cParsed.entries[i].key # cDoc[k].key

\* C15 witness: a redirect line, the opener on line 2, and a redirect line
\* and a comment after it
C15_Witness ==
    /\ cPc = "read"
    /\ Len(cDoc) = 3
    /\ cDoc[1].kind = "redirect"
    /\ cDoc[3].kind = "redirect"
    /\ Unterminated(cDoc, 2)
    /\ cParsed.errors = <<[kind |-> "unclosed", key |-> <<"e">>, line |-> 2]>>
    /\ Len(cParsed.entries) = 1

\* C16: a complete note block gives one note entry whose content is the
\* raw lines between opener and closer joined by newline, untrimmed, with
\* the password of the opener as rawPassword; a redirect line gives one uri
\* entry with the trimmed target, and no rawPassword when it names none.
C16_EntriesAsWritten ==
    (cPc = "read" /\ Pieces(cDoc, "opener") = {})
        => /\ cParsed.entries = EntriesUpTo(cDoc, Len(cDoc))
           /\ \A k \in Pieces(cDoc, "note") :
                  LET lines == cDoc[k].lines
                  IN  cDoc[k].entries[1].record.content =
                          JoinLines(Slice(lines, 2, Len(lines) - 1))

\* C16 witness: the block with a password and an indented closer, then the
\* block with a blank line and a # line, then the plain redirect line
C16_Witness ==
    /\ cPc = "read"
    /\ Len(cDoc) = 3
    /\ Len(cParsed.entries) = 3
    /\ cParsed.entries[1] =
           ParsedEntry(<<"d">>, "note", <<"a", "-", ">", "x">>, <<"q">>, <<"q">>)
    /\ cParsed.entries[2].record.content = <<" ", "x", " ", NL, NL, "#", "y">>
    /\ cParsed.entries[3] =
           ParsedEntry(<<"a">>, "uri", <<"h", ":", "u">>, None, None)

\* two record maps that differ at most in the values of the passwordHash
\* fields that both have
SameButHashes(r1, r2) ==
    /\ DOMAIN r1 = DOMAIN r2
    /\ \A k \in DOMAIN r1 :
           /\ r1[k].type = r2[k].type
           /\ r1[k].content = r2[k].content
           /\ (r1[k].passwordHash = None) <=> (r2[k].passwordHash = None)

\* the line the serialized text has for a key shows the placeholder
ShowsPlaceholder(text, key) ==
    \E i \in 1..Len(SplitLines(text)) :
        StartsWith(SplitLines(text)[i],
                   key \o <<" ", "[">> \o Placeholder \o <<"]", " ">>)

\* C17: the serialized text shows the placeholder for a key exactly when
\* its record has a passwordHash, and record maps that differ only in the
\* values of their passwordHash fields serialize to the same text.
C17_OnlyPresenceOfPassword ==
    cPc = "serialized" =>
        /\ \A k \in DOMAIN cRecords :
               ShowsPlaceholder(cText, k) <=> cRecords[k].passwordHash # None
        /\ \A other \in CodecMaps :
               SameButHashes(cRecords, other)
                   => serializeBulkFormat(other) = cText

\* C17 witness: a protected redirect and an unprotected note have been
\* serialized, and another map holds a different hash for the redirect
C17_Witness ==
    /\ cPc = "serialized"
    /\ DOMAIN cRecords = {KeyA, <<"b", "-">>}
    /\ cRecords[KeyA].type = "uri"
    /\ cRecords[KeyA].passwordHash = hashPassword(GoodPassword, Salt1)
    /\ cRecords[<<"b", "-">>].type = "note"
    /\ cRecords[<<"b", "-">>].passwordHash = None
    /\ ShowsPlaceholder(cText, KeyA)
    /\ ~ShowsPlaceholder(cText, <<"b", "-">>)
    /\ \E other \in CodecMaps :
           /\ other # cRecords
           /\ SameButHashes(cRecords, other)
           /\ serializeBulkFormat(other) = cText

\* C18: every stored record has the createdAt of the save that created its
\* key (the key being present ever since) and the updatedAt of the most
\* recent save, so createdAt <= updatedAt.
C18_CreatedAtKeptUpdatedAtLatest ==
    \A k \in DOMAIN kv :
        LET record == getRecord(kv, k).record
        IN  /\ record.createdAt = last.created[k]
            /\ record.updatedAt = last.savedAt
            /\ record.createdAt <= record.updatedAt

\* C19: the raw endpoint answers a request for a protected key that
\* carries no unlock credential for the key with the terse 401
\* Unauthorized: not with the password prompt, not with the content.
C19_RawIsTerselyUnauthorized ==
    (/\ resp.handler = "raw"
     /\ StoredHash(kv, resp.key) # None
     /\ resp.credential = "none")
        => /\ resp.response.status = 401
           /\ resp.response.body = "unauthorized"
           /\ resp.response.content = <<>>

\* C19 witness: the raw content of the protected key is asked for with the
\* unlock cookie of another key only
C19_Witness ==
    /\ resp.handler = "raw"
    /\ resp.key = KeyA
    /\ StoredHash(kv, KeyA) # None
    /\ resp.cookie # None
    /\ resp.credential = "none"
    /\ resp.response.status = 401
    /\ resp.response.body = "unauthorized"

\* C20: the unlock cookie createUnlockCookie makes for a key unlocks that
\* key and no other key, keys it is a prefix or a suffix of included.
C20_CookieUnlocksItsKeyOnly ==
    ck.pc = "shown" => (ck.unlocked <=> ck.other = ck.key)

\* C20 witness: the cookie of a is shown, among other cookies, for ab, and
\* does not unlock it
C20_Witness ==
    /\ ck.pc = "shown"
    /\ ck.key = <<"a">>
    /\ ck.other = <<"a", "b">>
    /\ ck.crowded
    /\ ~ck.unlocked

\* C21: every response of handleGet, handleRaw and handleUnlock comes after
\* the response delay.
C21_EveryResponseDelayed ==
    resp.handler \in {"get", "raw", "unlock"} => resp.response.delayed

\* the status and body of a response
Content(answer) == <<answer.response.status, answer.response.body>>

\* an answer of handleUnlock, not rate limited, for a key without a record
UnknownKeyAnswer(answer) ==
    /\ answer.handler = "unlock"
    /\ answer.gate # "limited"
    /\ answer.key \notin DOMAIN kv

\* an answer of handleUnlock for a protected key whose password was verified
\* and found wrong
WrongPasswordAnswer(answer) ==
    /\ answer.handler = "unlock"
    /\ StoredHash(kv, answer.key) # None
    /\ answer.response.verified
    /\ answer.response.setCookie = NoCookie

\* C22: handleUnlock answers an attempt on a key that does not exist with
\* the status and body it gives a wrong password on a protected key.
C22_UnknownKeyLooksLikeWrongPassword ==
    /\ (UnknownKeyAnswer(prev) /\ WrongPasswordAnswer(resp))
           => Content(prev) = Content(resp)
    /\ (WrongPasswordAnswer(prev) /\ UnknownKeyAnswer(resp))
           => Content(prev) = Content(resp)

\* the admin save request has been answered with the given status
SaveAnswered(status) ==
    bulk.route = "save" /\ bulk.pc = "done" /\ bulk.status = status

\* entry i is the last entry of the document with its key
LastOfKey(entries, i) ==
    \A j \in (i + 1)..Len(entries) : entries[j].key # entries[i].key

\* the document names some key twice
HasDuplicateKey(entries) ==
    \E i \in 1..Len(entries) : ~LastOfKey(entries, i)

\* C23: when a submission has several entries with the same key, the record
\* stored for the key once the save has answered 200 and all its store
\* calls have completed is the one of the last entry with that key.
C23_LastEntryWins ==
    (SaveAnswered(200) /\ bulk.pending = {}) =>
        \A i \in 1..Len(bulk.entries) :
            LastOfKey(bulk.entries, i) =>
                /\ bulk.entries[i].key \in DOMAIN kv
                /\ kv[bulk.entries[i].key].json
                /\ kv[bulk.entries[i].key].record.type = bulk.entries[i].record.type
                /\ kv[bulk.entries[i].key].record.content
                       = bulk.entries[i].record.content

\* the same for the handleSave that awaits its store calls one by one
LastEntryWinsWhenAwaited == bulk.parallel \/ C23_LastEntryWins

\* the keys of the events of the given kind in the admin request
EventKeys(ev) ==
    {bulk.events[i].key : i \in {j \in 1..Len(bulk.events) : bulk.events[j].ev = ev}}

\* C24: within one bulk save no key receives both a delete and a put: the
\* keys deleted and the keys saved are disjoint.
C24_DeletedAndSavedDisjoint ==
    EventKeys("delete issued") \cap EventKeys("put issued") = {}

C24_Witness ==
    /\ SaveAnswered(200)
    /\ EventKeys("delete done") # {}
    /\ EventKeys("put done") # {}
    /\ EventKeys("put done") \cap DOMAIN AdminStore # {}

\* the positions of the events of the given kind in the admin request
EventsAt(ev) == {i \in 1..Len(bulk.events) : bulk.events[i].ev = ev}

\* C25: within one bulk save the listing completes before any delete is
\* issued, and every delete of the operation has been issued and has
\* completed before the first put is issued, also when the deletes and the
\* puts are each run in parallel.
C25_PhasesStrictlyOrdered ==
    /\ \A d \in EventsAt("delete issued") :
           \E l \in EventsAt("listed") : l < d
    /\ \A p \in EventsAt("put issued") :
           /\ \A k \in (DOMAIN bulk.existing) \ NewKeys(bulk.entries) :
                  \E d \in EventsAt("delete done") :
                      d < p /\ bulk.events[d].key = k
           /\ \A d \in EventsAt("delete issued") :
                  /\ d < p
                  /\ \E c \in EventsAt("delete done") :
                         d < c /\ c < p /\ bulk.events[c].key = bulk.events[d].key

C25_Witness ==
    /\ bulk.parallel
    /\ Cardinality(EventsAt("delete done")) >= 2
    /\ Cardinality(EventsAt("put issued")) >= 2

\* C26: failed unlock attempts are not undercounted when requests for one
\* pair overlap: while no window can have expired, the counter of a pair is
\* the number of failed verifications since its last success, each failure
\* having added exactly one.
C26_FailuresNotUndercounted ==
    now <= UNLOCK_RATE_LIMIT_WINDOW_MS =>
        \A pair \in GatePairs :
            LET k == RateLimitKey(pair[1], pair[2])
            IN  /\ k \in DOMAIN hist => k \in DOMAIN unlockRateLimitMap
                /\ k \in DOMAIN unlockRateLimitMap
                       => /\ k \in DOMAIN hist
                          /\ unlockRateLimitMap[k].attempts = hist[k].since

\* C26 witness: a request that passed the check while its pair was clear
\* fails after another request for the pair failed: the counter is 2
C26_Witness ==
    /\ now <= UNLOCK_RATE_LIMIT_WINDOW_MS
    /\ resp.handler = "unlock"
    /\ resp.response.status = 401
    /\ resp.gate = "clear"
    /\ unlockRateLimitMap[RateLimitKey(resp.ip, resp.key)].attempts = 2

\* the key names on the pages the collaborator gave to the listing
Enumerated(pages) ==
    UNION {{pages[p].keys[i] : i \in 1..Len(pages[p].keys)} : p \in 1..Len(pages)}

\* the admin request has listed the records
HasListed == \E i \in 1..Len(bulk.events) : bulk.events[i].ev = "listed"

\* C27: listAllRecords returns no system key (no reserved name, no key with
\* the reserved prefix), and returns every other key with a parseable
\* record that the collaborator enumerates on any of its pages, with the
\* record stored for it.
C27_ListingSkipsSystemKeysOnly ==
    HasListed =>
        /\ \A k \in DOMAIN bulk.existing :
               /\ k \notin SYSTEM_KEYS
               /\ ~(Len(k) >= 2 /\ k[1] = "_" /\ k[2] = "_")
               /\ k \in Enumerated(bulk.pages)
        /\ \A k \in Enumerated(bulk.pages) :
               (/\ k \notin SYSTEM_KEYS
                /\ ~(Len(k) >= 2 /\ k[1] = "_" /\ k[2] = "_")
                /\ k \in DOMAIN AdminStore
                /\ AdminStore[k].json)
                   => /\ k \in DOMAIN bulk.existing
                      /\ bulk.existing[k] = AdminStore[k].record

\* the pages on which the collaborator enumerated the key
PagesOf(pages, k) ==
    {p \in 1..Len(pages) : \E i \in 1..Len(pages[p].keys) : pages[p].keys[i] = k}

\* C27 witness: a listing of several pages that enumerated a system key and
\* an unparseable value, and returned keys of two pages after the first
C27_Witness ==
    /\ HasListed
    /\ Len(bulk.pages) >= 3
    /\ <<"_", "_", "s">> \in Enumerated(bulk.pages)
    /\ KeyC \in Enumerated(bulk.pages)
    /\ \E k1 \in DOMAIN bulk.existing, k2 \in DOMAIN bulk.existing :
           /\ PagesOf(bulk.pages, k1) = {2}
           /\ PagesOf(bulk.pages, k2) = {3}

\* the document resubmits the key, and names no new password for it
ResubmittedWithoutPassword(entries, k) ==
    /\ \E i \in 1..Len(entries) : entries[i].key = k
    /\ \A i \in 1..Len(entries) :
           entries[i].key = k => entries[i].rawPassword = None

\* the listing of the admin request left out the key though it is stored
OmittedByListing(k) ==
    HasListed /\ k \in DOMAIN AdminStore /\ k \notin Enumerated(bulk.pages)

\* C28: a bulk save that resubmits, without a new password, a key that is
\* stored with a passwordHash leaves the key stored with its previous
\* passwordHash and createdAt, also when the listing left the key out.
C28_StaleListingKeepsHash ==
    (SaveAnswered(200) /\ bulk.pending = {}) =>
        \A k \in DOMAIN AdminStore :
            (/\ AdminStore[k].json
             /\ AdminStore[k].record.passwordHash # None
             /\ ResubmittedWithoutPassword(bulk.entries, k))
                => /\ k \in DOMAIN kv
                   /\ kv[k].record.passwordHash = AdminStore[k].record.passwordHash
                   /\ kv[k].record.createdAt = AdminStore[k].record.createdAt

\* the same for the saves whose listing enumerated the key
HashKeptWhenListed == OmittedByListing(KeyA) \/ C28_StaleListingKeepsHash

\* C29: nothing is rolled back when a store call of a bulk save fails: at
\* every moment, also after the 500, each key whose put completed is stored
\* with the content of an entry of the document, each key whose delete
\* completed is gone, and every other key is as it was before the save.
C29_CompletedCallsStayApplied ==
    \A k \in (DOMAIN kv) \cup (DOMAIN AdminStore) \cup EventKeys("put done") :
        IF k \in EventKeys("put done")
        THEN /\ k \in DOMAIN kv
             /\ kv[k].json
             /\ kv[k].record.updatedAt = now
             /\ \E i \in 1..Len(bulk.entries) :
                    /\ bulk.entries[i].key = k
                    /\ bulk.entries[i].record.content = kv[k].record.content
        ELSE IF k \in EventKeys("delete done")
        THEN k \notin DOMAIN kv
        ELSE k \in DOMAIN kv /\ k \in DOMAIN AdminStore /\ kv[k] = AdminStore[k]

\* C29 witness: a put failed, the save answered 500 and no call is in
\* flight; a stale key is deleted, a submitted key is saved and another
\* submitted key is not
C29_Witness ==
    /\ SaveAnswered(500)
    /\ bulk.pending = {}
    /\ \E k \in EventKeys("delete done") : k \notin DOMAIN kv
    /\ \E k \in EventKeys("put done") : k \in DOMAIN kv
    /\ \E i \in 1..Len(bulk.entries) :
           /\ bulk.entries[i].key \notin EventKeys("put done")
           /\ bulk.entries[i].key \notin DOMAIN kv

\* the admin request carries no identity, or one that is not on the
\* non-empty allow-list, which names a@x and c@x
IdentityDenied ==
    \/ bulk.email = None
    \/ /\ bulk.allowed # None
       /\ bulk.email \notin {<<c1, "@", c2>> : c1 \in {"a", "A", "c", "C"},
                                                 c2 \in {"x", "X"}}

\* C30: an admin request without an identity header, or with an identity
\* that is not on a non-empty allow-list (compared without regard to case),
\* gets 403 and causes no list, put or delete on the store.
C30_DeniedIdentityTouchesNothing ==
    (bulk.pc \notin {"none", "auth"} /\ IdentityDenied) =>
        /\ bulk.pc = "done"
        /\ bulk.status = 403
        /\ bulk.events = <<>>
        /\ bulk.pending = {}
        /\ bulk.queue = <<>>
        /\ kv = AdminStore

\* C30 witness: a save request whose identity is not on the allow-list has
\* got 403
C30_Witness ==
    /\ SaveAnswered(403)
    /\ bulk.email = <<"b", "@", "x">>
    /\ bulk.allowed # None
    /\ bulk.content # <<>>

\* an identity on the allow-list in another case is let in
AllowedIdentityLetIn ==
    (bulk.pc \notin {"none", "auth"} /\ bulk.email = <<"A", "@", "x">>)
        => bulk.status # 403

\* C31: loading the dashboard and saving the text it shows, unedited,
\* deletes no record: every key stored before the save, redirect or note,
\* is still stored after it.
C31_SavingDashboardDeletesNothing ==
    (bulk.resubmitted /\ bulk.pc \notin {"none", "auth"}) =>
        /\ EventKeys("delete issued") = {}
        /\ \A k \in DOMAIN AdminStore : k \in DOMAIN kv

\* the same for the dashboard and the save of admin.ts
DashboardOfAllRecordsDeletesNothing ==
    bulk.parallel \/ C31_SavingDashboardDeletesNothing

\* C32: in every interleaving of overlapping unlock requests for one pair
\* the stored attempt counter of the pair never exceeds
\* MAX_UNLOCK_ATTEMPTS: at most that many verifications fail in one window.
C32_CounterNeverExceedsLimit ==
    \A k \in DOMAIN unlockRateLimitMap :
        unlockRateLimitMap[k].attempts <= MAX_UNLOCK_ATTEMPTS

\* C33: a response sets an unlock cookie for key K only if it answers a
\* handleUnlock request for K that was not rate-limited, found the record
\* of K with a passwordHash, and whose password verified against that hash
\* (the hash stored for the protected key is the one of GoodPassword); GET
\* and raw requests set none.
C33_CredentialOnlyAfterVerification ==
    resp.response.setCookie # NoCookie =>
        /\ resp.handler = "unlock"
        /\ resp.gate # "limited"
        /\ resp.response.status # 429
        /\ resp.key \in DOMAIN kv
        /\ kv[resp.key].json
        /\ kv[resp.key].record.passwordHash = hashPassword(GoodPassword, Salt1)
        /\ resp.password = GoodPassword
        /\ resp.response.verified
        /\ \E token \in DOMAIN issued :
               /\ issued[token].key = resp.key
               /\ resp.response.setCookie = createUnlockCookie(resp.key, token)

\* C33 witness: the unlock of the protected key with the right password
\* has been answered with the cookie
C33_Witness ==
    /\ resp.handler = "unlock"
    /\ resp.key = KeyA
    /\ resp.response.status = 302
    /\ resp.response.setCookie # NoCookie
    /\ issued # [t \in {} |-> [key |-> <<>>, at |-> 0]]

\* no password verification resolves in the step
NoVerificationResolves ==
    \A r \in Slots : ~(reqs[r].pc = "verify" /\ reqs'[r].pc # "verify")

\* the step leaves every entry of the rate limit map as it is, or removes it
\* when its window is over
OnlyExpiredEntriesRemoved ==
    \A k \in (DOMAIN unlockRateLimitMap) \cup (DOMAIN unlockRateLimitMap') :
        IF k \in DOMAIN unlockRateLimitMap'
        THEN /\ k \in DOMAIN unlockRateLimitMap
             /\ unlockRateLimitMap'[k] = unlockRateLimitMap[k]
        ELSE unlockRateLimitMap[k].resetAt < now

\* C35: the steps of an unlock request in which no password verification
\* resolves (the rate limit check, the refusal of a limited pair, the
\* answers for a missing key, an unprotected key and an omitted password)
\* record no attempt and issue no credential: the rate limit map changes by
\* the removal of expired entries only.
C35_NoVerificationNoAttempt ==
    [][NoVerificationResolves =>
          /\ OnlyExpiredEntriesRemoved
          /\ issued' = issued
          /\ (resp' # resp => resp'.response.setCookie = NoCookie)]_vars

\* C35 witness: a request without a password for a pair whose window was
\* over has been answered, and the entry of the pair is gone
C35_Witness ==
    /\ resp.handler = "unlock"
    /\ resp.gate = "expired"
    /\ resp.response.status = 400
    /\ ~resp.response.verified
    /\ RateLimitKey(resp.ip, resp.key) \notin DOMAIN unlockRateLimitMap
    /\ hist[RateLimitKey(resp.ip, resp.key)].fails > 0

\* C39: parseBulkFormat terminates on every input: every iteration of the
\* outer loop and of the note-content loop moves the line index forward by
\* at least one, each line is consumed exactly once (the lines consumed are
\* 1, 2, ... up to the index, in order), and the entries and errors together
\* never outnumber the lines; the loop returns with every line consumed.
C39_ParsingConsumesEachLineOnce ==
    /\ loop.i <= Len(loop.lines) + 1
    /\ loop.consumed = [n \in 1..(loop.i - 1) |-> n]
    /\ Len(loop.entries) + Len(loop.errors) <= Len(loop.lines)
    /\ Len(loop.entries) + Len(loop.errors) <= Len(loop.consumed)
    /\ loop.pc = "returned" => loop.i = Len(loop.lines) + 1

\* C39 witness: the loop has returned from a text with a closed note
\* block, an unclosed one and a line of no format
C39_Witness ==
    /\ loop.pc = "returned"
    /\ Len(loop.lines) >= 6
    /\ \E n \in 1..Len(loop.entries) : loop.entries[n].record.type = "note"
    /\ Len(loop.errors) >= 2

\* every step of the loop moves the line index forward, except the two
\* steps that end a loop at the end of the lines
LoopAdvances ==
    [][loop'.i >= loop.i + 1 \/ loop.i > Len(loop.lines)]_vars

\* what the loop returns is what parseBulkFormat gives for the text
LoopAgreesWithParse ==
    loop.pc = "returned" => cParsed = parseBulkFormat(cText)

\* no entry: no attempts, no window
NoEntry == RateEntry(0, NoTime)

\* the entry of the pair in the rate limit map, NoEntry when it has none
PairEntry(map, p) ==
    IF RateLimitKey(p[1], p[2]) \in DOMAIN map
    THEN map[RateLimitKey(p[1], p[2])] ELSE NoEntry

\* C36: rate limit state is kept per (client, key) pair: a call that
\* records, checks or clears the attempts of one pair changes the counter
\* and the window of no other pair (keys being made of [A-Za-z0-9_-]).
C36_PairsAreIsolated ==
    [][resp'.handler \in {"check", "record", "clear"} /\ requests' # requests =>
          \A p \in LimitPairs :
              p # <<resp'.ip, resp'.key>> =>
                  PairEntry(unlockRateLimitMap', p) = PairEntry(unlockRateLimitMap, p)]_vars

\* C36 witness: the pair (12, a) has been cleared while the pair (1, 2a),
\* which has the same characters in the same order, keeps its entry
C36_Witness ==
    /\ resp.handler = "clear"
    /\ resp.ip = <<"1", "2">>
    /\ resp.key = <<"a">>
    /\ PairEntry(unlockRateLimitMap, <<<<"1", "2">>, <<"a">>>>) = NoEntry
    /\ PairEntry(unlockRateLimitMap, <<<<"1">>, <<"2", "a">>>>) # NoEntry
    /\ PairEntry(unlockRateLimitMap, <<<<"1", "2">>, <<"2", "a">>>>) # NoEntry

\* C37: whenever checkUnlockRateLimit rejects an attempt, the retryAfter
\* it returns is a whole number of seconds from 0 to 3600, and it is 0 only
\* when the check happens at the very instant the window ends.
C37_RetryAfterWithinWindow ==
    \A p \in LimitPairs :
        LET check == checkUnlockRateLimit(unlockRateLimitMap, p[1], p[2], now)
        IN  ~check.allowed =>
                /\ check.retryAfter \in 0..3600
                /\ check.retryAfter = 0 =>
                       PairEntry(unlockRateLimitMap, p).resetAt = now
                /\ check.retryAfter * 1000
                       >= PairEntry(unlockRateLimitMap, p).resetAt - now
                /\ (check.retryAfter - 1) * 1000
                       < PairEntry(unlockRateLimitMap, p).resetAt - now

\* C37 witness: a check one millisecond before the end of the window has
\* been rejected, with retryAfter 1
C37_Witness ==
    /\ resp.handler = "check"
    /\ resp.response.status = 429
    /\ resp.response.retryAfter = 1
    /\ PairEntry(unlockRateLimitMap, <<resp.ip, resp.key>>).resetAt = now + 1

\* what the store holds, timestamps aside: type, content and passwordHash
\* of the record of each key
Contents(store) ==
    [k \in DOMAIN listAllRecords(store) |->
        [type |-> store[k].record.type, content |-> store[k].record.content,
         passwordHash |-> store[k].record.passwordHash]]

\* the store after the save of content x and then the save of content y
SavedInOrder(x, y) ==
    handleSave(handleSave(RaceStore, x, <<Salt1, Salt1>>, 1).store, y,
               <<Salt1, Salt1>>, 1).store

BothSaved ==
    \A r \in RaceSlots :
        race[r].kind = "save" /\ race[r].pc = "done" /\ race[r].status = 200

\* C34: two bulk saves running concurrently are serializable: once both
\* have completed, the store holds what the two saves give when one is
\* executed after the other, in one of the two orders
C34_ConcurrentSavesSerializable ==
    BothSaved =>
        Contents(kv) \in {Contents(SavedInOrder(race[1].content, race[2].content)),
                          Contents(SavedInOrder(race[2].content, race[1].content))}

\* C38: a quick-add never overwrites a record: no quick-add that answered
\* success applied its put to a key that held a record at that moment
C38_QuickAddNeverOverwrites ==
    \A r \in RaceSlots :
        (race[r].kind = "quick" /\ race[r].pc = "done" /\ race[r].status = 200)
            => ~race[r].overwrote

\* a quick-add for a key that holds a record at its check answers 409 and
\* changes nothing
QuickAddConflictAtCheck ==
    [][\A r \in RaceSlots :
          (QuickCheck(r) /\ getRecord(kv, race[r].key).found
              /\ isValidKey(race[r].key) /\ isValidUrl(race[r].url))
            => race'[r].status = 409 /\ kv' = kv]_vars

=========================================================================
